---- MODULE Spec2Model ----
(***************************************************************************)
(* School-management application: the relational schema with its          *)
(* row-level-security policies, the client handlers that write to it, and  *)
(* the ai-grading edge function.                                           *)
(***************************************************************************)
EXTENDS Integers, Sequences, FiniteSets, TLC

VARIABLES
    profiles,                \* public.profiles: id -> [role, full_name]
    classes,                 \* public.classes: id -> [teacher_id, class_code]
    class_enrollments,       \* public.class_enrollments: id -> [class_id, student_id]
    assignments,             \* public.assignments: id -> [class_id, title, total_points]
    assignment_submissions,  \* public.assignment_submissions: id -> row
    attendance,              \* public.attendance: id -> row
    toast,                   \* title of the toast the last handler showed
    response,                \* HTTP response of the last ai-grading invocation
    call,                    \* the last request issued: what, by whom, on what
    tabs,                    \* per browser tab: position inside submitAttendance
    lastInsert,              \* the tab whose attendance insert statement ran last
    aiText,                  \* the completion text the AI gateway holds ready
    auth_users,              \* auth.users: the ids of the identities
    announcements,           \* public.announcements: id -> [class_id, created_by]
    resources,               \* public.resources: id -> [class_id, file_url, uploaded_by]
    timetable,               \* public.timetable: id -> [class_id, day_of_week]
    objects,                 \* storage.objects: [bucket_id, name, owner] records
    notifications,           \* public.notifications: [id, user_id, type, related_id] records
    fn,                      \* per running ai-grading invocation: its position
    dbError,                 \* a database call of the last handler returned an error
    dash                     \* the mounted dashboard page: its position and queries

\* The state outside the submission, enrollment and attendance handlers.
more == <<auth_users, announcements, resources, timetable, objects,
          notifications, fn, dbError, dash>>

vars == <<profiles, classes, class_enrollments, assignments,
          assignment_submissions, attendance, toast, response, call, tabs,
          lastInsert, aiText, more>>

NULL == "NULL"

\* A nullable column holds the empty set (SQL NULL) or a one-element set.
Null == {}
Some(v) == {v}

----------------------------------------------------------------------------
(* Identities and seed data *)

Teachers == {"t1", "t2"}
Students == {"s1", "s2"}
Users == Teachers \cup Students

ClassIds == {"c1", "c2"}
AssignmentIds == {"a1", "a2"}
SubmissionIds == {"x1", "x2"}
EnrollmentIds == {"e1", "e2", "e3"}
AttendanceIds == {"r1", "r2", "r3"}

InitProfiles ==
    [u \in Users |-> [role |-> IF u \in Teachers THEN "teacher" ELSE "student",
                      full_name |-> u]]

InitClasses ==
    [c \in ClassIds |->
        IF c = "c1" THEN [teacher_id |-> "t1", class_code |-> <<"A", "B", "1">>]
                    ELSE [teacher_id |-> "t2", class_code |-> <<"B", "A", "1">>]]

InitAssignments ==
    [a \in AssignmentIds |->
        IF a = "a1" THEN [class_id |-> "c1", title |-> "Essay", total_points |-> 100]
                    ELSE [class_id |-> "c2", title |-> "Quiz", total_points |-> 100]]

EmptyTable == [x \in {} |-> NULL]

\* gen_random_uuid(): an id of the pool that no row of the table carries.
FreshId(pool, table) == CHOOSE x \in pool : x \notin DOMAIN table

\* A request as `call` records it; for an ai-grading invocation also whether
\* LOVABLE_API_KEY was configured and the status the gateway answered with.
Call(op, caller, target) ==
    [op |-> op, caller |-> caller, target |-> target,
     configured |-> FALSE, status |-> 0]
AiCall(caller, target, keyConfigured, status) ==
    [op |-> "ai-grading", caller |-> caller, target |-> target,
     configured |-> keyConfigured, status |-> status]
NoCall == Call("none", NULL, NULL)
NoResponse == [status |-> 0, error |-> NULL, grade |-> Null, feedback |-> Null]

----------------------------------------------------------------------------
(* assignment_submissions: table constraints and policies *)

\* UNIQUE(assignment_id, student_id): the key is free in the table, the row
\* under id `self` (the one being updated) left aside.
SubmissionKeyFree(table, self, row) ==
    \A x \in DOMAIN table \ {self} :
        ~(table[x].assignment_id = row.assignment_id
          /\ table[x].student_id = row.student_id)

\* REFERENCES assignments(id), profiles(id); graded_by is nullable.
SubmissionForeignKeysOk(row) ==
    /\ row.assignment_id \in DOMAIN assignments
    /\ row.student_id \in DOMAIN profiles
    /\ row.graded_by \subseteq DOMAIN profiles

\* The class that owns a submission's assignment is taught by uid.
TeachesSubmission(uid, row) ==
    \E a \in DOMAIN assignments :
        /\ a = row.assignment_id
        /\ \E c \in DOMAIN classes :
              c = assignments[a].class_id /\ classes[c].teacher_id = uid

\* "Students can submit assignments" FOR INSERT WITH CHECK
StudentsCanSubmitAssignments(uid, row) == row.student_id = uid

\* "Students can update own submissions" FOR UPDATE USING
StudentsCanUpdateOwnSubmissions(uid, row) == row.student_id = uid

\* "Teachers can grade submissions" FOR UPDATE USING
TeachersCanGradeSubmissions(uid, row) == TeachesSubmission(uid, row)

\* Variant: the grading policy keyed on the profile role alone.
SubmissionUpdatePolicyAnyTeacher(uid, row) ==
    \/ StudentsCanUpdateOwnSubmissions(uid, row)
    \/ (uid \in DOMAIN profiles /\ profiles[uid].role = "teacher")

\* The permissive UPDATE policies are OR-ed; with no WITH CHECK clause the
\* USING expression also checks the new row.
SubmissionUpdatePolicy(uid, row) ==
    \/ StudentsCanUpdateOwnSubmissions(uid, row)
    \/ TeachersCanGradeSubmissions(uid, row)

\* The row a patch (a function from some columns to values) turns `old` into.
Patched(old, patch) ==
    [col \in DOMAIN old |-> IF col \in DOMAIN patch THEN patch[col] ELSE old[col]]

\* UPDATE assignment_submissions SET patch WHERE id = x, as role `authenticated`:
\* a row the USING expression hides is skipped without error; a new row that
\* fails the check or a constraint aborts the statement.
RlsUpdateSubmission(table, uid, x, patch) ==
    IF x \notin DOMAIN table \/ ~SubmissionUpdatePolicy(uid, table[x])
    THEN [table |-> table, error |-> NULL, rows |-> 0]
    ELSE LET new == Patched(table[x], patch) IN
         IF ~SubmissionUpdatePolicy(uid, new)
         THEN [table |-> table, error |-> "42501", rows |-> 0]
         ELSE IF ~SubmissionForeignKeysOk(new)
         THEN [table |-> table, error |-> "23503", rows |-> 0]
         ELSE IF ~SubmissionKeyFree(table, x, new)
         THEN [table |-> table, error |-> "23505", rows |-> 0]
         ELSE [table |-> [table EXCEPT ![x] = new], error |-> NULL, rows |-> 1]

\* Variant: a row that already carries a grade is left alone.
ServiceUpdateSubmissionIfUngraded(table, x, patch) ==
    IF x \notin DOMAIN table \/ table[x].grade # Null
    THEN [table |-> table, error |-> NULL, rows |-> 0]
    ELSE [table |-> [table EXCEPT ![x] = Patched(table[x], patch)],
          error |-> NULL, rows |-> 1]

\* The same UPDATE as the service role, which bypasses row-level security.
ServiceUpdateSubmission(table, x, patch) ==
    IF x \notin DOMAIN table
    THEN [table |-> table, error |-> NULL, rows |-> 0]
    ELSE LET new == Patched(table[x], patch) IN
         IF ~SubmissionForeignKeysOk(new)
         THEN [table |-> table, error |-> "23503", rows |-> 0]
         ELSE IF ~SubmissionKeyFree(table, x, new)
         THEN [table |-> table, error |-> "23505", rows |-> 0]
         ELSE [table |-> [table EXCEPT ![x] = new], error |-> NULL, rows |-> 1]

\* A fresh row: the columns the statement names, the rest at their defaults.
NewSubmission(assignment_id, student_id, content) ==
    [assignment_id |-> assignment_id, student_id |-> student_id,
     content |-> content, grade |-> Null, ai_feedback |-> Null,
     teacher_feedback |-> Null, graded_by |-> Null, graded_at |-> Null]

\* Variant: the table without its UNIQUE(assignment_id, student_id).
RlsInsertSubmissionNoUnique(table, uid, x, row) ==
    IF ~StudentsCanSubmitAssignments(uid, row)
    THEN [table |-> table, error |-> "42501", rows |-> 0]
    ELSE IF ~SubmissionForeignKeysOk(row)
    THEN [table |-> table, error |-> "23503", rows |-> 0]
    ELSE [table |-> [y \in DOMAIN table \cup {x} |->
                        IF y = x THEN row ELSE table[y]],
          error |-> NULL, rows |-> 1]

\* INSERT INTO assignment_submissions as role `authenticated`, under id x.
RlsInsertSubmission(table, uid, x, row) ==
    IF ~StudentsCanSubmitAssignments(uid, row)
    THEN [table |-> table, error |-> "42501", rows |-> 0]
    ELSE IF ~SubmissionForeignKeysOk(row)
    THEN [table |-> table, error |-> "23503", rows |-> 0]
    ELSE IF ~SubmissionKeyFree(table, x, row)
    THEN [table |-> table, error |-> "23505", rows |-> 0]
    ELSE [table |-> [y \in DOMAIN table \cup {x} |->
                        IF y = x THEN row ELSE table[y]],
          error |-> NULL, rows |-> 1]

\* DELETE FROM assignment_submissions WHERE id = x as role `authenticated`:
\* the table has no DELETE policy, so no row is visible to the statement.
RlsDeleteSubmission(table, uid, x) ==
    [table |-> table, error |-> NULL, rows |-> 0]

----------------------------------------------------------------------------
(* ai-grading edge function *)

Digits == {"0", "1", "2", "3", "4", "5", "6", "7", "8", "9"}
Letters == {"a", "b"}
WordChars == Digits \cup Letters \cup {"_"}

\* Characters the modelled completions are written in: digits, a letter, a
\* separator.
Chars == {"0", "1", "5", "8", "a", " "}
MaxLen == 4

RECURSIVE TextsOfLen(_)
TextsOfLen(n) ==
    IF n = 0 THEN {<<>>}
    ELSE {Append(t, c) : t \in TextsOfLen(n - 1), c \in Chars}

Texts == UNION {TextsOfLen(n) : n \in 0..MaxLen}

DigitVal(c) ==
    CASE c = "0" -> 0 [] c = "1" -> 1 [] c = "2" -> 2 [] c = "3" -> 3
      [] c = "4" -> 4 [] c = "5" -> 5 [] c = "6" -> 6 [] c = "7" -> 7
      [] c = "8" -> 8 [] c = "9" -> 9

\* parseInt on a string of decimal digits.
RECURSIVE parseInt(_)
parseInt(s) ==
    IF s = <<>> THEN 0
    ELSE 10 * parseInt(SubSeq(s, 1, Len(s) - 1)) + DigitVal(s[Len(s)])

\* \b before position p (1..Len+1): exactly one side is a word character.
WordBoundary(text, p) ==
    LET before == p > 1 /\ text[p - 1] \in WordChars
        after == p <= Len(text) /\ text[p] \in WordChars
    IN before # after

\* The lengths n for which \b\d{n}\b matches at position i.
MatchLengths(text, i) ==
    {n \in 1..3 :
        /\ i + n - 1 <= Len(text)
        /\ \A k \in i..(i + n - 1) : text[k] \in Digits
        /\ WordBoundary(text, i)
        /\ WordBoundary(text, i + n)}

Max(S) == CHOOSE m \in S : \A n \in S : n <= m
Min(S) == CHOOSE m \in S : \A n \in S : m <= n

\* Variant: the pattern without its \b anchors, /(\d{1,3})/.
gradeMatchUnanchored(text) ==
    LET starts == {i \in 1..Len(text) :
                     \E n \in 1..3 : /\ i + n - 1 <= Len(text)
                                     /\ \A k \in i..(i + n - 1) : text[k] \in Digits}
    IN IF starts = {} THEN Null
       ELSE LET i == Min(starts)
                n == Max({m \in 1..3 : /\ i + m - 1 <= Len(text)
                                       /\ \A k \in i..(i + m - 1) : text[k] \in Digits})
            IN Some(SubSeq(text, i, i + n - 1))

\* aiResponse.match(/\b(\d{1,3})\b/): the leftmost match, the quantifier
\* greedy; the captured group, or nothing when the pattern matches nowhere.
gradeMatch(text) ==
    LET starts == {i \in 1..Len(text) : MatchLengths(text, i) # {}}
    IN IF starts = {} THEN Null
       ELSE LET i == Min(starts)
                n == Max(MatchLengths(text, i))
            IN Some(SubSeq(text, i, i + n - 1))

\* gradeMatch ? Math.min(parseInt(gradeMatch[1]), 100) : 75
suggestedGrade(text) ==
    LET m == gradeMatch(text)
    IN IF m # Null THEN Min({parseInt(CHOOSE g \in m : TRUE), 100}) ELSE 75

\* response.ok: a status in the range 200-299.
ResponseOk(status) == status >= 200 /\ status <= 299

RateLimitMessage == "Rate limit exceeded. Please try again later."
CreditsMessage == "AI usage limit reached. Please add credits to continue."

\* Variant: the row is written before the key and the gateway status are
\* looked at.
AiGradingRunWriteFirst(table, submissionId, keyConfigured, status, text) ==
    LET upd == ServiceUpdateSubmission(table, submissionId,
                   [ai_feedback |-> Some(text), grade |-> Some(suggestedGrade(text))])
    IN IF upd.error # NULL
       THEN [table |-> table,
             response |-> [status |-> 500, error |-> upd.error,
                           grade |-> Null, feedback |-> Null]]
       ELSE IF ~keyConfigured
       THEN [table |-> upd.table,
             response |-> [status |-> 500, error |-> "LOVABLE_API_KEY is not configured",
                           grade |-> Null, feedback |-> Null]]
       ELSE IF ~ResponseOk(status)
       THEN [table |-> upd.table,
             response |-> [status |-> 500, error |-> "AI gateway error",
                           grade |-> Null, feedback |-> Null]]
       ELSE [table |-> upd.table,
             response |-> [status |-> 200, error |-> NULL,
                           grade |-> Some(suggestedGrade(text)),
                           feedback |-> Some(text)]]

\* The serve handler: the request body names the submission; the caller's
\* identity is not read. keyConfigured: LOVABLE_API_KEY is set; status and
\* text: what the gateway answers. Yields the table and the HTTP response.
AiGradingRun(table, submissionId, keyConfigured, status, text) ==
    IF ~keyConfigured
    THEN [table |-> table,
          response |-> [status |-> 500, error |-> "LOVABLE_API_KEY is not configured",
                        grade |-> Null, feedback |-> Null]]
    ELSE IF ~ResponseOk(status)
    THEN IF status = 429
         THEN [table |-> table,
               response |-> [status |-> 429, error |-> RateLimitMessage,
                             grade |-> Null, feedback |-> Null]]
         ELSE IF status = 402
         THEN [table |-> table,
               response |-> [status |-> 402, error |-> CreditsMessage,
                             grade |-> Null, feedback |-> Null]]
         ELSE [table |-> table,
               response |-> [status |-> 500, error |-> "AI gateway error",
                             grade |-> Null, feedback |-> Null]]
    ELSE LET grade == suggestedGrade(text)
             upd == ServiceUpdateSubmission(table, submissionId,
                        [ai_feedback |-> Some(text), grade |-> Some(grade)])
         IN IF upd.error # NULL
            THEN [table |-> table,
                  response |-> [status |-> 500, error |-> upd.error,
                                grade |-> Null, feedback |-> Null]]
            ELSE [table |-> upd.table,
                  response |-> [status |-> 200, error |-> NULL,
                                grade |-> Some(grade), feedback |-> Some(text)]]

----------------------------------------------------------------------------
(* Initial state: the seeded profiles, classes and assignments, no rows in  *)
(* the other tables, no request issued.                                     *)

Invocations == {1, 2}
IdleFn == [pc |-> "idle", submissionId |-> NULL, status |-> 0, text |-> <<>>,
           fetches |-> 0, writes |-> 0, answer |-> 0]

NoDash == [page |-> NULL, user |-> NULL, pc |-> "unmounted", queries |-> {},
           location |-> NULL]

InitMore ==
    /\ auth_users = Users
    /\ announcements = EmptyTable
    /\ resources = EmptyTable
    /\ timetable = EmptyTable
    /\ objects = {}
    /\ notifications = {}
    /\ fn = [i \in Invocations |-> IdleFn]
    /\ dbError = FALSE
    /\ dash = NoDash

Tabs == {1, 2}
IdleTab == [pc |-> "idle", caller |-> NULL, classId |-> NULL, records |-> {}]

Init ==
    /\ profiles = InitProfiles
    /\ classes = InitClasses
    /\ class_enrollments = EmptyTable
    /\ assignments = InitAssignments
    /\ assignment_submissions = EmptyTable
    /\ attendance = EmptyTable
    /\ toast = NULL
    /\ response = NoResponse
    /\ call = NoCall
    /\ tabs = [t \in Tabs |-> IdleTab]
    /\ lastInsert = 0
    /\ aiText = <<>>
    /\ InitMore

----------------------------------------------------------------------------
(* Requests on assignment_submissions *)

Contents == {"essay", "draft"}
Grades == {40, 90}
Feedback == "Good work"
Now == "now"

\* What the client API lets a caller put in an UPDATE: single columns, and
\* the column set AssignmentSubmissions.handleGradeSubmission writes.
GradePatch(uid, g) ==
    [grade |-> Some(g), teacher_feedback |-> Some(Feedback),
     graded_by |-> Some(uid), graded_at |-> Some(Now)]

Patches(uid) ==
    {[content |-> c] : c \in Contents}
    \cup {[grade |-> Some(g)] : g \in Grades}
    \cup {[student_id |-> s] : s \in Students}
    \cup {[assignment_id |-> a] : a \in AssignmentIds}
    \cup {GradePatch(uid, g) : g \in Grades}

\* supabase.from("assignment_submissions").insert(row) by uid
ClientInsertSubmission(uid, a, sid, content) ==
    /\ SubmissionIds \ DOMAIN assignment_submissions # {}
    /\ LET x == FreshId(SubmissionIds, assignment_submissions)
            r == RlsInsertSubmission(assignment_submissions, uid, x,
                                    NewSubmission(a, sid, content))
       IN /\ assignment_submissions' = r.table
          /\ call' = Call("insert", uid, NULL)
    /\ toast' = NULL
    /\ response' = NoResponse
    /\ UNCHANGED <<profiles, classes, class_enrollments, assignments, attendance,
                   tabs, lastInsert, aiText, more>>

\* supabase.from("assignment_submissions").update(patch).eq("id", x) by uid
ClientUpdateSubmission(uid, x, patch) ==
    /\ LET r == RlsUpdateSubmission(assignment_submissions, uid, x, patch)
       IN /\ assignment_submissions' = r.table
          /\ call' = Call("update", uid, NULL)
    /\ toast' = NULL
    /\ response' = NoResponse
    /\ UNCHANGED <<profiles, classes, class_enrollments, assignments, attendance,
                   tabs, lastInsert, aiText, more>>

\* supabase.from("assignment_submissions").delete().eq("id", x) by uid
ClientDeleteSubmission(uid, x) ==
    /\ LET r == RlsDeleteSubmission(assignment_submissions, uid, x)
       IN /\ assignment_submissions' = r.table
          /\ call' = Call("delete", uid, NULL)
    /\ toast' = NULL
    /\ response' = NoResponse
    /\ UNCHANGED <<profiles, classes, class_enrollments, assignments, attendance,
                   tabs, lastInsert, aiText, more>>

\* supabase.functions.invoke("ai-grading", {submissionId: x, ...}) by uid
InvokeAiGrading(uid, x, keyConfigured, status, text) ==
    /\ LET r == AiGradingRun(assignment_submissions, x, keyConfigured, status, text)
       IN /\ assignment_submissions' = r.table
          /\ response' = r.response
          /\ call' = AiCall(uid, x, keyConfigured, status)
    /\ toast' = NULL
    /\ UNCHANGED <<profiles, classes, class_enrollments, assignments, attendance,
                   tabs, lastInsert, aiText, more>>

\* handleSubmit as `call` records it: whether it invoked ai-grading
\* (configured) and how many times it called fetchAssignments (status).
SubmitCall(caller, target, invoked, fetches) ==
    [op |-> "handleSubmit", caller |-> caller, target |-> target,
     configured |-> invoked, status |-> fetches]

\* Variant: fetchAssignments at the end of the try block and again in the
\* finally block.
AfterInvokeFetchingTwice(thrown) ==
    [toast |-> IF thrown THEN "Submitted successfully" ELSE "Assignment submitted!",
     fetches |-> IF thrown THEN 1 ELSE 2]

\* The try/catch/finally around the invocation: the toast of the try block
\* or, when the invocation threw, of the catch block, and the calls of
\* fetchAssignments.
AfterInvoke(thrown) ==
    [toast |-> IF thrown THEN "Submitted successfully" ELSE "Assignment submitted!",
     fetches |-> 1]

\* StudentAssignments.handleSubmit by uid for assignment a: the insert, and
\* when it succeeded the ai-grading call for the new row, which answers or
\* (thrown) rejects without having reached the function, then the toast and
\* the re-fetch.
handleSubmit(uid, a, content, keyConfigured, status, text, thrown) ==
    /\ SubmissionIds \ DOMAIN assignment_submissions # {}
    /\ a \in DOMAIN assignments
    /\ LET x == FreshId(SubmissionIds, assignment_submissions)
           ins == RlsInsertSubmission(assignment_submissions, uid, x,
                                      NewSubmission(a, uid, content))
       IN IF ins.error # NULL
          THEN /\ assignment_submissions' = ins.table
               /\ toast' = "Error submitting assignment"
               /\ response' = NoResponse
               /\ call' = SubmitCall(uid, a, FALSE, 0)
          ELSE LET r == IF thrown THEN [table |-> ins.table, response |-> NoResponse]
                        ELSE AiGradingRun(ins.table, x, keyConfigured, status, text)
                   after == AfterInvoke(thrown)
               IN /\ assignment_submissions' = r.table
                  /\ toast' = after.toast
                  /\ response' = r.response
                  /\ call' = SubmitCall(uid, a, TRUE, after.fetches)
    /\ UNCHANGED <<profiles, classes, class_enrollments, assignments, attendance,
                   tabs, lastInsert, aiText, more>>

GatewayStatuses == {200, 402, 429, 503}
AiTexts == {<<"8", "5">>, <<"a">>}

\* The client API on assignment_submissions, and handleSubmit with the
\* ai-grading function unconfigured.
NextRls ==
    \/ \E uid \in Students, a \in AssignmentIds, sid \in Students, c \in Contents :
          ClientInsertSubmission(uid, a, sid, c)
    \/ \E uid \in Users, x \in SubmissionIds :
          \E patch \in Patches(uid) : ClientUpdateSubmission(uid, x, patch)
    \/ \E uid \in Students, x \in SubmissionIds : ClientDeleteSubmission(uid, x)
    \/ \E uid \in Students, a \in AssignmentIds, c \in Contents :
          handleSubmit(uid, a, c, FALSE, 200, <<>>, FALSE)

SpecRls == Init /\ [][NextRls]_vars

\* Submitting, grading by the teacher, and the ai-grading function.
NextAi ==
    \/ \E uid \in Students, k \in BOOLEAN, st \in GatewayStatuses, text \in AiTexts :
          handleSubmit(uid, "a1", "essay", k, st, text, FALSE)
    \/ \E uid \in Users, x \in SubmissionIds, g \in Grades :
          ClientUpdateSubmission(uid, x, GradePatch(uid, g))
    \/ \E uid \in Users, x \in SubmissionIds, k \in BOOLEAN,
          st \in GatewayStatuses, text \in AiTexts :
          InvokeAiGrading(uid, x, k, st, text)

SpecAi == Init /\ [][NextAi]_vars

----------------------------------------------------------------------------
(* The ai-grading serve handler statement by statement: several invocations *)
(* may be in flight, each one at the key check, at the gateway call, at the *)
(* update statement, or answered.  fetches and writes count the gateway     *)
(* calls and the update statements an invocation has issued.                *)

\* Variant: a gateway failure other than 429 and 402 sends the handler back
\* to the gateway call.
FnAfterFetchRetrying(f, status, text) ==
    IF ~ResponseOk(status)
    THEN IF status \in {429, 402}
         THEN [f EXCEPT !.pc = "done", !.status = status,
                        !.fetches = f.fetches + 1, !.answer = status]
         ELSE [f EXCEPT !.pc = "fetch", !.status = status,
                        !.fetches = f.fetches + 1]
    ELSE [f EXCEPT !.pc = "update", !.status = status, !.text = text,
                   !.fetches = f.fetches + 1]

\* The handler after `await fetch(...)`: a non-OK status is answered at once
\* (429, 402, or 500 through the catch block); an OK one leads on to the
\* update statement with the completion text.
FnAfterFetch(f, status, text) ==
    IF ~ResponseOk(status)
    THEN [f EXCEPT !.pc = "done", !.status = status,
                   !.fetches = f.fetches + 1,
                   !.answer = IF status \in {429, 402} THEN status ELSE 500]
    ELSE [f EXCEPT !.pc = "update", !.status = status, !.text = text,
                   !.fetches = f.fetches + 1]

\* A request arrives: the body is read and LOVABLE_API_KEY looked up.
FnStart(i, x, keyConfigured) ==
    /\ fn[i].pc = "idle"
    /\ fn' = [fn EXCEPT ![i] =
                 IF keyConfigured
                 THEN [IdleFn EXCEPT !.pc = "fetch", !.submissionId = x]
                 ELSE [IdleFn EXCEPT !.pc = "done", !.submissionId = x,
                                     !.answer = 500]]
    /\ UNCHANGED <<profiles, classes, class_enrollments, assignments,
                   assignment_submissions, attendance, toast, response, call,
                   tabs, lastInsert, aiText, auth_users, announcements,
                   resources, timetable, objects, notifications, dbError, dash>>

\* The gateway call returns with a status and a completion text.
FnFetch(i, status, text) ==
    /\ fn[i].pc = "fetch"
    /\ fn' = [fn EXCEPT ![i] = FnAfterFetch(fn[i], status, text)]
    /\ UNCHANGED <<profiles, classes, class_enrollments, assignments,
                   assignment_submissions, attendance, toast, response, call,
                   tabs, lastInsert, aiText, auth_users, announcements,
                   resources, timetable, objects, notifications, dbError, dash>>

\* The update statement with the service-role client, then the response.
FnUpdate(i) ==
    /\ fn[i].pc = "update"
    /\ LET upd == ServiceUpdateSubmission(assignment_submissions, fn[i].submissionId,
                      [ai_feedback |-> Some(fn[i].text),
                       grade |-> Some(suggestedGrade(fn[i].text))])
       IN /\ assignment_submissions' = upd.table
          /\ fn' = [fn EXCEPT ![i].pc = "done",
                              ![i].writes = fn[i].writes + 1,
                              ![i].answer = IF upd.error # NULL THEN 500 ELSE 200]
    /\ UNCHANGED <<profiles, classes, class_enrollments, assignments,
                   attendance, toast, response, call, tabs, lastInsert, aiText,
                   auth_users, announcements, resources, timetable, objects,
                   notifications, dbError, dash>>

\* The response has been sent; the isolate is free for the next request.
FnReturn(i) ==
    /\ fn[i].pc = "done"
    /\ fn' = [fn EXCEPT ![i] = IdleFn]
    /\ UNCHANGED <<profiles, classes, class_enrollments, assignments,
                   assignment_submissions, attendance, toast, response, call,
                   tabs, lastInsert, aiText, auth_users, announcements,
                   resources, timetable, objects, notifications, dbError, dash>>

NextAiSteps ==
    \/ \E uid \in Students : ClientInsertSubmission(uid, "a1", uid, "essay")
    \/ \E i \in Invocations, x \in SubmissionIds, k \in BOOLEAN : FnStart(i, x, k)
    \/ \E i \in Invocations, st \in GatewayStatuses, text \in AiTexts :
          FnFetch(i, st, text)
    \/ \E i \in Invocations : FnUpdate(i)
    \/ \E i \in Invocations : FnReturn(i)

SpecAiSteps == Init /\ [][NextAiSteps]_vars

\* C11: an ai-grading invocation calls the gateway at most once and writes
\* the submission table at most once; after a failure (an answer other than
\* 200) it issues no further call or write; and a write is issued only after
\* the invocation's gateway call returned an OK status.
C11_OneCallOneWriteNoRetry ==
    [][\A i \in Invocations :
          /\ fn'[i].fetches <= 1
          /\ fn'[i].writes <= 1
          /\ (fn[i].pc = "done" /\ fn[i].answer # 200 /\ fn'[i].pc # "idle")
                => fn'[i] = fn[i]
          /\ (fn'[i].pc # "idle" /\ fn'[i].writes > fn[i].writes)
                => (fn[i].fetches = 1 /\ ResponseOk(fn[i].status))
          /\ (assignment_submissions' # assignment_submissions
              /\ call' = call /\ fn'[i] # fn[i])
                => fn'[i].writes = fn[i].writes + 1]_vars

\* An invocation has answered 200 after one gateway call and one write, while
\* another one has failed at the gateway and written nothing.
C11_Witness ==
    /\ fn[1].pc = "done" /\ fn[1].answer = 200
    /\ fn[1].fetches = 1 /\ fn[1].writes = 1
    /\ fn[1].submissionId \in DOMAIN assignment_submissions
    /\ assignment_submissions[fn[1].submissionId].grade = Some(85)
    /\ fn[2].pc = "done" /\ fn[2].answer = 500
    /\ fn[2].fetches = 1 /\ fn[2].writes = 0

----------------------------------------------------------------------------
(* class_enrollments: constraints, policy and handleJoinClass *)

\* UNIQUE(class_id, student_id)
EnrollmentKeyFree(table, row) ==
    \A e \in DOMAIN table :
        ~(table[e].class_id = row.class_id /\ table[e].student_id = row.student_id)

\* "Students can enroll themselves" FOR INSERT WITH CHECK
StudentsCanEnrollThemselves(uid, row) == row.student_id = uid

\* Variant: the table without its UNIQUE(class_id, student_id).
RlsInsertEnrollmentNoUnique(table, uid, e, row) ==
    IF ~StudentsCanEnrollThemselves(uid, row)
    THEN [table |-> table, error |-> "42501"]
    ELSE IF row.class_id \notin DOMAIN classes \/ row.student_id \notin DOMAIN profiles
    THEN [table |-> table, error |-> "23503"]
    ELSE [table |-> [y \in DOMAIN table \cup {e} |-> IF y = e THEN row ELSE table[y]],
          error |-> NULL]

\* INSERT INTO class_enrollments as role `authenticated`, under id e.
RlsInsertEnrollment(table, uid, e, row) ==
    IF ~StudentsCanEnrollThemselves(uid, row)
    THEN [table |-> table, error |-> "42501"]
    ELSE IF row.class_id \notin DOMAIN classes \/ row.student_id \notin DOMAIN profiles
    THEN [table |-> table, error |-> "23503"]
    ELSE IF ~EnrollmentKeyFree(table, row)
    THEN [table |-> table, error |-> "23505"]
    ELSE [table |-> [y \in DOMAIN table \cup {e} |-> IF y = e THEN row ELSE table[y]],
          error |-> NULL]

\* String.prototype.toUpperCase on the characters class codes are typed in.
UpperChar(c) == CASE c = "a" -> "A" [] c = "b" -> "B" [] OTHER -> c
toUpperCase(code) == [i \in 1..Len(code) |-> UpperChar(code[i])]

\* The codes a user types into the join dialog.
JoinCodes == {<<"A", "B", "1">>, <<"a", "b", "1">>, <<"B", "A", "1">>, <<"A", "A", "1">>}

\* Variant: the lookup compares the first character only.
ClassesByFirstCharacter(code) ==
    {c \in DOMAIN classes : classes[c].class_code[1] = code[1]}

\* .from("classes").select("id").eq("class_code", code).single(): the ids of
\* the matching classes; single() yields a row only when there is exactly one.
ClassesByCode(code) == {c \in DOMAIN classes : classes[c].class_code = code}

\* StudentDashboard.handleJoinClass by uid with classCode = code.
handleJoinClass(uid, code) ==
    /\ EnrollmentIds \ DOMAIN class_enrollments # {}
    /\ LET found == ClassesByCode(toUpperCase(code))
           e == FreshId(EnrollmentIds, class_enrollments)
       IN IF Cardinality(found) # 1
          THEN /\ toast' = "Class not found"
               /\ UNCHANGED class_enrollments
          ELSE LET classData == CHOOSE c \in found : TRUE
                   ins == RlsInsertEnrollment(class_enrollments, uid, e,
                              [class_id |-> classData, student_id |-> uid])
               IN /\ class_enrollments' = ins.table
                  /\ toast' = IF ins.error = NULL THEN "Successfully joined!"
                               ELSE IF ins.error = "23505" THEN "Already enrolled"
                               ELSE "Error joining class"
    /\ call' = Call("handleJoinClass", uid, code)
    /\ response' = NoResponse
    /\ UNCHANGED <<profiles, classes, assignments, assignment_submissions,
                   attendance, tabs, lastInsert, aiText, more>>

\* supabase.from("class_enrollments").insert({class_id, student_id}) by uid
ClientInsertEnrollment(uid, classId, sid) ==
    /\ EnrollmentIds \ DOMAIN class_enrollments # {}
    /\ LET e == FreshId(EnrollmentIds, class_enrollments)
           ins == RlsInsertEnrollment(class_enrollments, uid, e,
                      [class_id |-> classId, student_id |-> sid])
       IN class_enrollments' = ins.table
    /\ call' = Call("insert", uid, NULL)
    /\ toast' = NULL
    /\ response' = NoResponse
    /\ UNCHANGED <<profiles, classes, assignments, assignment_submissions,
                   attendance, tabs, lastInsert, aiText, more>>

NextEnroll ==
    \/ \E uid \in Users, code \in JoinCodes : handleJoinClass(uid, code)
    \/ \E uid \in Users, c \in ClassIds, sid \in Users :
          ClientInsertEnrollment(uid, c, sid)

SpecEnroll == Init /\ [][NextEnroll]_vars

OneEnrollmentPerPair(table) ==
    \A e, f \in DOMAIN table :
        (table[e].class_id = table[f].class_id
         /\ table[e].student_id = table[f].student_id) => e = f

\* C6: there is at most one enrollment row per (class_id, student_id); when
\* a student who is enrolled in a class calls handleJoinClass with that
\* class's code again, no row is inserted, class_enrollments stays as it
\* was, and the call reports "Already enrolled".
C6_EnrollmentIdempotent ==
    [][/\ OneEnrollmentPerPair(class_enrollments')
       /\ (call'.op = "handleJoinClass"
           /\ \E c \in DOMAIN classes, e \in DOMAIN class_enrollments :
                 /\ classes[c].class_code = call'.target
                 /\ class_enrollments[e].class_id = c
                 /\ class_enrollments[e].student_id = call'.caller)
          => /\ class_enrollments' = class_enrollments
             /\ toast' = "Already enrolled"]_vars

\* A student's second join with the same code has been answered
\* "Already enrolled".
C6_Witness ==
    /\ call.op = "handleJoinClass"
    /\ call.caller = "s1"
    /\ call.target = <<"A", "B", "1">>
    /\ toast = "Already enrolled"
    /\ \E e \in DOMAIN class_enrollments :
          class_enrollments[e] = [class_id |-> "c1", student_id |-> "s1"]

----------------------------------------------------------------------------
(* resources and the storage buckets: policies, the storage API and          *)
(* ResourceManager.handleUpload / handleDelete                               *)

Buckets == {"assignment-files", "class-resources"}
ResourceIds == {"q1", "q2"}

\* Object names: a folder (a class id or a user id) and a file.
ObjectNames == {<<"c1", "f1">>, <<"t1", "f1">>, <<"s1", "f1">>}

\* auth.uid() of a request without a session.
Anon == NULL

\* (storage.foldername(name))[1]
FolderOf(name) == IF Len(name) > 1 THEN name[1] ELSE NULL

\* url LIKE '%' || name
EndsWith(url, name) ==
    /\ Len(name) <= Len(url)
    /\ SubSeq(url, Len(url) - Len(name) + 1, Len(url)) = name

\* supabase.storage.from("class-resources").getPublicUrl(name)
getPublicUrl(bucket, name) == <<"object", "public", bucket>> \o name

Enrolled(uid, c) ==
    \E e \in DOMAIN class_enrollments :
        class_enrollments[e].class_id = c /\ class_enrollments[e].student_id = uid

\* "Class members can view resource files" FOR SELECT USING
ClassMembersCanViewResourceFiles(uid, o) ==
    /\ o.bucket_id = "class-resources"
    /\ \E r \in DOMAIN resources, c \in DOMAIN classes :
          /\ c = resources[r].class_id
          /\ EndsWith(resources[r].file_url, o.name)
          /\ (classes[c].teacher_id = uid \/ Enrolled(uid, c))

\* "Teachers can upload resource files" FOR INSERT WITH CHECK
TeachersCanUploadResourceFiles(uid, o) ==
    o.bucket_id = "class-resources" /\ uid # Anon

\* "Teachers can delete resource files" FOR DELETE USING
TeachersCanDeleteResourceFiles(uid, o) ==
    o.bucket_id = "class-resources" /\ uid # Anon

\* "Teachers can upload assignment files" FOR INSERT WITH CHECK, as recreated
\* by the later migration
TeachersCanUploadAssignmentFiles(uid, o) ==
    /\ o.bucket_id = "assignment-files"
    /\ uid \in DOMAIN profiles /\ profiles[uid].role = "teacher"

\* "Teachers can delete assignment files" FOR DELETE USING
TeachersCanDeleteAssignmentFiles(uid, o) ==
    /\ o.bucket_id = "assignment-files"
    /\ uid \in DOMAIN profiles /\ profiles[uid].role = "teacher"

\* "Class members can view assignment files" FOR SELECT USING
ClassMembersCanViewAssignmentFiles(uid, o) ==
    /\ o.bucket_id = "assignment-files"
    /\ \E c \in DOMAIN classes :
          /\ c = FolderOf(o.name)
          /\ (classes[c].teacher_id = uid \/ Enrolled(uid, c))

ObjectSelectPolicy(uid, o) ==
    ClassMembersCanViewResourceFiles(uid, o) \/ ClassMembersCanViewAssignmentFiles(uid, o)

ObjectInsertPolicy(uid, o) ==
    TeachersCanUploadResourceFiles(uid, o) \/ TeachersCanUploadAssignmentFiles(uid, o)

ObjectDeletePolicy(uid, o) ==
    TeachersCanDeleteResourceFiles(uid, o) \/ TeachersCanDeleteAssignmentFiles(uid, o)

\* storage.from(bucket).upload(name, file) by uid: INSERT INTO storage.objects;
\* a name already taken in the bucket is a conflict.
StorageUpload(objs, uid, bucket, name) ==
    LET o == [bucket_id |-> bucket, name |-> name, owner |-> uid]
    IN IF ~ObjectInsertPolicy(uid, o)
       THEN [objects |-> objs, error |-> "42501"]
       ELSE IF \E q \in objs : q.bucket_id = bucket /\ q.name = name
       THEN [objects |-> objs, error |-> "23505"]
       ELSE [objects |-> objs \cup {o}, error |-> NULL]

\* storage.from(bucket).remove([name]) by uid: DELETE FROM storage.objects
\* WHERE bucket_id = bucket AND name = name; the statement sees the rows that
\* pass a SELECT policy and a DELETE policy, and skips the others silently.
StorageRemove(objs, uid, bucket, name) ==
    [objects |-> {o \in objs : ~(/\ o.bucket_id = bucket /\ o.name = name
                                 /\ ObjectSelectPolicy(uid, o)
                                 /\ ObjectDeletePolicy(uid, o))},
     error |-> NULL]

\* "Teachers can manage resources" FOR ALL USING
TeachersCanManageResources(uid, row) ==
    \E c \in DOMAIN classes : c = row.class_id /\ classes[c].teacher_id = uid

\* INSERT INTO resources as role `authenticated`, under id q.
RlsInsertResource(table, uid, q, row) ==
    IF ~TeachersCanManageResources(uid, row)
    THEN [table |-> table, error |-> "42501"]
    ELSE IF row.class_id \notin DOMAIN classes \/ row.uploaded_by \notin DOMAIN profiles
    THEN [table |-> table, error |-> "23503"]
    ELSE [table |-> [y \in DOMAIN table \cup {q} |-> IF y = q THEN row ELSE table[y]],
          error |-> NULL]

\* DELETE FROM resources WHERE id = q as role `authenticated`.
RlsDeleteResource(table, uid, q) ==
    IF q \in DOMAIN table /\ TeachersCanManageResources(uid, table[q])
    THEN [table |-> [y \in DOMAIN table \ {q} |-> table[y]], error |-> NULL]
    ELSE [table |-> table, error |-> NULL]

\* "Class members can view resources" FOR SELECT USING
ClassMembersCanViewResources(uid, row) ==
    \E c \in DOMAIN classes :
        /\ c = row.class_id
        /\ (classes[c].teacher_id = uid \/ Enrolled(uid, c))

\* The most notification rows the table is let grow to.
MaxNotifications == 2

\* "System can create notifications" FOR INSERT WITH CHECK (true); user_id
\* REFERENCES profiles(id); every row gets an id of its own (id DEFAULT
\* gen_random_uuid()), here the numbers after the largest one in use.
InsertNotifications(table, rows) ==
    IF \E n \in rows : n.user_id \notin DOMAIN profiles
    THEN [table |-> table, error |-> "23503"]
    ELSE LET base == IF table = {} THEN 0 ELSE Max({n.id : n \in table})
             nth == CHOOSE f \in [rows -> 1..Cardinality(rows)] :
                       \A a, b \in rows : a # b => f[a] # f[b]
         IN [table |-> table \cup
                         {[id |-> base + nth[n], user_id |-> n.user_id,
                           type |-> n.type, related_id |-> n.related_id] :
                             n \in rows},
             error |-> NULL]

\* The statements of a handler that a fault outside the schema's rules (the
\* network, the server) can make return an error.
FaultSets(statements) == SUBSET statements

\* fileUrl.match(/class-resources\/(.+)$/): what follows the first
\* "class-resources" segment, when something does.
PathAfterBucket(url) ==
    LET at == {i \in 1..Len(url) : url[i] = "class-resources"}
    IN IF at = {} \/ Min(at) = Len(url) THEN Null
       ELSE Some(SubSeq(url, Min(at) + 1, Len(url)))

\* ResourceManager.handleUpload by uid: file `file` for class classId; the
\* statements in `faults` return an error whatever the schema says.
handleUpload(uid, classId, hasTitle, file, faults) ==
    /\ ResourceIds \ DOMAIN resources # {}
    /\ Cardinality(notifications) < MaxNotifications
    /\ call' = Call("handleUpload", uid, classId)
    /\ IF ~hasTitle
       THEN /\ toast' = "Missing information"
            /\ dbError' = FALSE
            /\ UNCHANGED <<objects, resources, notifications>>
       ELSE IF uid = Anon
       THEN /\ toast' = NULL
            /\ dbError' = FALSE
            /\ UNCHANGED <<objects, resources, notifications>>
       ELSE LET fileName == <<uid, file>>
                up == IF "upload" \in faults
                      THEN [objects |-> objects, error |-> "fault"]
                      ELSE StorageUpload(objects, uid, "class-resources", fileName)
                q == FreshId(ResourceIds, resources)
                ins == IF "insert" \in faults
                       THEN [table |-> resources, error |-> "fault"]
                       ELSE RlsInsertResource(resources, uid, q,
                                [class_id |-> classId,
                                 file_url |-> getPublicUrl("class-resources", fileName),
                                 uploaded_by |-> uid])
                enrollments ==
                    IF "select" \in faults THEN Null
                    ELSE Some({class_enrollments[e].student_id :
                                 e \in {d \in DOMAIN class_enrollments :
                                          /\ class_enrollments[d].class_id = classId
                                          /\ \/ class_enrollments[d].student_id = uid
                                             \/ /\ classId \in DOMAIN classes
                                                /\ classes[classId].teacher_id = uid}})
                note == IF enrollments = Null
                        THEN [table |-> notifications, error |-> NULL]
                        ELSE IF "notify" \in faults
                        THEN [table |-> notifications, error |-> "fault"]
                        ELSE InsertNotifications(notifications,
                                 {[user_id |-> st, type |-> "resource",
                                   related_id |-> classId] :
                                      st \in UNION enrollments})
            IN IF up.error # NULL
               THEN /\ toast' = "Upload failed"
                    /\ dbError' = TRUE
                    /\ UNCHANGED <<objects, resources, notifications>>
               ELSE IF ins.error # NULL
               THEN /\ toast' = "Upload failed"
                    /\ dbError' = TRUE
                    /\ objects' = up.objects
                    /\ UNCHANGED <<resources, notifications>>
               ELSE /\ toast' = "Resource uploaded"
                    /\ dbError' = (enrollments = Null \/ note.error # NULL)
                    /\ objects' = up.objects
                    /\ resources' = ins.table
                    /\ notifications' = note.table
    /\ response' = NoResponse
    /\ UNCHANGED <<profiles, classes, class_enrollments, assignments,
                   assignment_submissions, attendance, tabs, lastInsert, aiText,
                   auth_users, announcements, timetable, fn, dash>>

\* ResourceManager.handleDelete by uid on a listed resource q (confirmed in
\* the dialog): the row, then the file, whose removal is not checked.
handleDelete(uid, q, faults) ==
    /\ q \in DOMAIN resources
    /\ ClassMembersCanViewResources(uid, resources[q])
    /\ call' = Call("handleDelete", uid, q)
    /\ LET del == IF "delete" \in faults
                  THEN [table |-> resources, error |-> "fault"]
                  ELSE RlsDeleteResource(resources, uid, q)
           pathMatch == PathAfterBucket(resources[q].file_url)
           rem == IF pathMatch = Null
                  THEN [objects |-> objects, error |-> NULL]
                  ELSE IF "remove" \in faults
                  THEN [objects |-> objects, error |-> "fault"]
                  ELSE StorageRemove(objects, uid, "class-resources",
                                     CHOOSE n \in pathMatch : TRUE)
       IN IF del.error # NULL
          THEN /\ toast' = "Delete failed"
               /\ dbError' = TRUE
               /\ UNCHANGED <<resources, objects>>
          ELSE /\ toast' = "Resource deleted"
               /\ dbError' = (rem.error # NULL)
               /\ resources' = del.table
               /\ objects' = rem.objects
    /\ response' = NoResponse
    /\ UNCHANGED <<profiles, classes, class_enrollments, assignments,
                   assignment_submissions, attendance, tabs, lastInsert, aiText,
                   auth_users, announcements, timetable, notifications, fn, dash>>

\* supabase.storage.from(bucket).upload(name, file) by uid
ClientUpload(uid, bucket, name) ==
    /\ LET up == StorageUpload(objects, uid, bucket, name)
       IN /\ objects' = up.objects
          /\ dbError' = (up.error # NULL)
    /\ call' = Call("upload", uid, bucket)
    /\ toast' = NULL
    /\ response' = NoResponse
    /\ UNCHANGED <<profiles, classes, class_enrollments, assignments,
                   assignment_submissions, attendance, tabs, lastInsert, aiText,
                   auth_users, announcements, resources, timetable,
                   notifications, fn, dash>>

\* supabase.storage.from(bucket).remove([name]) by uid
ClientRemove(uid, bucket, name) ==
    /\ LET rem == StorageRemove(objects, uid, bucket, name)
       IN /\ objects' = rem.objects
          /\ dbError' = (rem.error # NULL)
    /\ call' = Call("remove", uid, bucket)
    /\ toast' = NULL
    /\ response' = NoResponse
    /\ UNCHANGED <<profiles, classes, class_enrollments, assignments,
                   assignment_submissions, attendance, tabs, lastInsert, aiText,
                   auth_users, announcements, resources, timetable,
                   notifications, fn, dash>>

\* Joining, sharing and deleting resources, and the storage API, by a
\* teacher, a student and a visitor without a session.
NextStorage ==
    \/ handleJoinClass("s1", <<"A", "B", "1">>)
    \/ \E uid \in {"t1", "s1"}, c \in ClassIds : handleUpload(uid, c, TRUE, "f1", {})
    \/ \E uid \in {"t1", "s1"}, q \in ResourceIds : handleDelete(uid, q, {})
    \/ \E uid \in {"t1", "s1", Anon}, b \in Buckets, name \in ObjectNames :
          ClientUpload(uid, b, name)
    \/ \E uid \in {"t1", "s1", Anon}, b \in Buckets, name \in ObjectNames :
          ClientRemove(uid, b, name)

SpecStorage == Init /\ [][NextStorage]_vars

\* The objects of the class-resources bucket.
ResourceFiles(objs) == {o \in objs : o.bucket_id = "class-resources"}

\* C12: the files of the class-resources bucket are added and removed only
\* by requests of a user who is the teacher of a class; a student, or a user
\* in no class, never uploads or deletes a resource file.
C12_OnlyClassTeachersWriteResourceFiles ==
    [][ResourceFiles(objects') # ResourceFiles(objects)
          => \E c \in DOMAIN classes : classes[c].teacher_id = call'.caller]_vars

----------------------------------------------------------------------------
(* attendance: constraints, policies and AttendanceTracker.submitAttendance *)

Statuses == {"present", "absent", "late"}
Today == "2025-11-16"

\* UNIQUE(class_id, student_id, date), over the table and the rows of one
\* statement together.
AttendanceKeysFree(table, rows) ==
    /\ \A r \in rows : \A x \in DOMAIN table :
          ~(table[x].class_id = r.class_id /\ table[x].student_id = r.student_id
            /\ table[x].date = r.date)
    /\ \A r, q \in rows :
          (r.class_id = q.class_id /\ r.student_id = q.student_id /\ r.date = q.date)
             => r = q

\* "Teachers can mark attendance" FOR INSERT WITH CHECK
TeachersCanMarkAttendance(uid, row) ==
    \E c \in DOMAIN classes : c = row.class_id /\ classes[c].teacher_id = uid

\* Fresh ids for the rows of one statement.
FreshIds(pool, table, rows) ==
    CHOOSE f \in [rows -> pool \ DOMAIN table] : \A r, q \in rows : f[r] = f[q] => r = q

\* Variant: the rows of a statement are taken one by one, the acceptable
\* ones stored and the others dropped.
RlsInsertAttendanceRowByRow(table, uid, rows) ==
    LET good == {r \in rows :
                   /\ TeachersCanMarkAttendance(uid, r)
                   /\ r.status \in Statuses
                   /\ AttendanceKeysFree(table, {r})
                   /\ \A q \in rows : (q.class_id = r.class_id
                                       /\ q.student_id = r.student_id
                                       /\ q.date = r.date) => q = r}
        id == FreshIds(AttendanceIds, table, good)
    IN [table |-> [x \in DOMAIN table \cup {id[r] : r \in good} |->
                      IF x \in DOMAIN table THEN table[x]
                      ELSE CHOOSE r \in good : id[r] = x],
        error |-> IF good = rows THEN NULL ELSE "23505"]

\* INSERT INTO attendance (a set of rows in one statement) as role
\* `authenticated`: one failing row aborts the whole statement.
RlsInsertAttendance(table, uid, rows) ==
    IF \E r \in rows : ~TeachersCanMarkAttendance(uid, r)
    THEN [table |-> table, error |-> "42501"]
    ELSE IF \E r \in rows : \/ r.class_id \notin DOMAIN classes
                             \/ r.student_id \notin DOMAIN profiles
                             \/ r.marked_by \notin DOMAIN profiles
    THEN [table |-> table, error |-> "23503"]
    ELSE IF \E r \in rows : r.status \notin Statuses
    THEN [table |-> table, error |-> "23514"]
    ELSE IF ~AttendanceKeysFree(table, rows)
    THEN [table |-> table, error |-> "23505"]
    ELSE LET id == FreshIds(AttendanceIds, table, rows)
         IN [table |-> [x \in DOMAIN table \cup {id[r] : r \in rows} |->
                           IF x \in DOMAIN table THEN table[x]
                           ELSE CHOOSE r \in rows : id[r] = x],
             error |-> NULL]

\* Variant: a DELETE policy that shows the class teacher the rows of the
\* class, so that the statement removes those of the date.
RlsDeleteAttendanceByClassTeacher(table, uid, classId, date) ==
    [table |-> [x \in {y \in DOMAIN table :
                         ~(/\ table[y].class_id = classId
                           /\ table[y].date = date
                           /\ TeachersCanMarkAttendance(uid, table[y]))} |->
                  table[x]],
     error |-> NULL]

\* DELETE FROM attendance WHERE class_id = classId AND date = date as role
\* `authenticated`: attendance has SELECT and INSERT policies only, so the
\* statement sees no row and removes none, without an error.
RlsDeleteAttendance(table, uid, classId, date) ==
    [table |-> table, error |-> NULL]

\* The component's attendance state: a status for some of the students.
AttendanceMaps ==
    UNION {[S -> Statuses] : S \in (SUBSET Students) \ {{}}}

\* Object.entries(attendance).map(...): the rows submitAttendance inserts.
attendanceRecords(uid, classId, marks) ==
    {[class_id |-> classId, student_id |-> s, status |-> marks[s],
      date |-> Today, marked_by |-> uid] : s \in DOMAIN marks}

\* submitAttendance by uid for classId, run from its first statement to its
\* last with no other request in between: the delete, its result ignored,
\* then the insert, then the toast.
submitAttendance(uid, classId, marks) ==
    /\ Cardinality(AttendanceIds \ DOMAIN attendance) >= Cardinality(DOMAIN marks)
    /\ LET del == RlsDeleteAttendance(attendance, uid, classId, Today)
           ins == RlsInsertAttendance(del.table, uid,
                                      attendanceRecords(uid, classId, marks))
       IN /\ attendance' = ins.table
          /\ toast' = IF ins.error # NULL THEN "Error saving attendance"
                                          ELSE "Attendance saved!"
    /\ tabs' = [tabs EXCEPT ![1] = [pc |-> "done", caller |-> uid,
                                    classId |-> classId, records |-> marks]]
    /\ call' = Call("submitAttendance", uid, classId)
    /\ response' = NoResponse
    /\ UNCHANGED <<profiles, classes, class_enrollments, assignments,
                   assignment_submissions, lastInsert, aiText, more>>

NextAttendance ==
    \E uid \in Teachers \cup {"s1"}, c \in ClassIds, marks \in AttendanceMaps :
        submitAttendance(uid, c, marks)

SpecAttendance == Init /\ [][NextAttendance]_vars

\* The same handler in two browser tabs of the class teacher, statement by
\* statement: a tab reads the user and builds its records, deletes, inserts.
TabStart(t, uid, classId, marks) ==
    /\ tabs[t].pc = "idle"
    /\ tabs' = [tabs EXCEPT ![t] = [pc |-> "delete", caller |-> uid,
                                    classId |-> classId, records |-> marks]]
    /\ call' = Call("submitAttendance", uid, classId)
    /\ UNCHANGED <<profiles, classes, class_enrollments, assignments,
                   assignment_submissions, attendance, toast, response,
                   lastInsert, aiText, more>>

TabDelete(t) ==
    /\ tabs[t].pc = "delete"
    /\ attendance' = RlsDeleteAttendance(attendance, tabs[t].caller,
                                         tabs[t].classId, Today).table
    /\ tabs' = [tabs EXCEPT ![t].pc = "insert"]
    /\ UNCHANGED <<profiles, classes, class_enrollments, assignments,
                   assignment_submissions, toast, response, call, lastInsert, aiText, more>>

TabInsert(t) ==
    /\ tabs[t].pc = "insert"
    /\ Cardinality(AttendanceIds \ DOMAIN attendance)
          >= Cardinality(DOMAIN tabs[t].records)
    /\ LET ins == RlsInsertAttendance(attendance, tabs[t].caller,
                      attendanceRecords(tabs[t].caller, tabs[t].classId,
                                        tabs[t].records))
       IN /\ attendance' = ins.table
          /\ toast' = IF ins.error # NULL THEN "Error saving attendance"
                                          ELSE "Attendance saved!"
    /\ tabs' = [tabs EXCEPT ![t].pc = "done"]
    /\ lastInsert' = t
    /\ UNCHANGED <<profiles, classes, class_enrollments, assignments,
                   assignment_submissions, response, call, aiText, more>>

NextTabs ==
    \/ \E t \in Tabs, marks \in AttendanceMaps : TabStart(t, "t1", "c1", marks)
    \/ \E t \in Tabs : TabDelete(t)
    \/ \E t \in Tabs : TabInsert(t)

SpecTabs == Init /\ [][NextTabs]_vars

\* The (student, status) pairs stored for a class on a date.
StoredMarks(classId, date) ==
    {<<attendance[x].student_id, attendance[x].status>> :
        x \in {y \in DOMAIN attendance :
                  attendance[y].class_id = classId /\ attendance[y].date = date}}

MarksOf(marks) == {<<s, marks[s]>> : s \in DOMAIN marks}

\* C2: after a submitAttendance call by the class teacher, each call
\* completing before the next starts, the attendance rows of the class for
\* the date are exactly the (student, status) pairs of that latest call.
C2_AttendanceFullReplace ==
    (call.op = "submitAttendance" /\ classes[call.target].teacher_id = call.caller)
        => StoredMarks(call.target, Today) = MarksOf(tabs[1].records)

\* C3: when two submitAttendance calls for the same class and date have
\* interleaved and both finished, the attendance rows of the class for the
\* date are exactly the content of the call whose insert ran last.
C3_LastWriterWins ==
    (\A t \in Tabs : tabs[t].pc = "done")
        => StoredMarks("c1", Today) = MarksOf(tabs[lastInsert].records)

----------------------------------------------------------------------------
(* Properties of assignment_submissions *)

\* uid is the row's student, or the teacher of the class that owns the row's
\* assignment.
IsOwnerOrClassTeacher(uid, row) ==
    \/ row.student_id = uid
    \/ classes[assignments[row.assignment_id].class_id].teacher_id = uid

\* Row x is not the same after the step as before it.
RowTouched(x) ==
    \/ x \notin DOMAIN assignment_submissions'
    \/ assignment_submissions'[x] # assignment_submissions[x]

\* C1: a request through the client API changes a submission row only when
\* its caller is the row's student or the teacher of the class that owns the
\* row's assignment; a student's requests leave the rows of other students
\* as they were.
C1_UpdateOnlyByOwnerOrClassTeacher ==
    [][\A x \in DOMAIN assignment_submissions :
          RowTouched(x) =>
              IsOwnerOrClassTeacher(call'.caller, assignment_submissions[x])]_vars

\* The class teacher's update of a student's row has taken effect.
C1_Witness ==
    /\ call.op = "update"
    /\ call.caller = "t1"
    /\ \E x \in DOMAIN assignment_submissions :
          /\ assignment_submissions[x].student_id = "s1"
          /\ assignment_submissions[x].assignment_id = "a1"
          /\ assignment_submissions[x].graded_by = Some("t1")

GradeColumns(row) ==
    <<row.grade, row.teacher_feedback, row.graded_by, row.graded_at>>

\* C5: grade, teacher_feedback, graded_by and graded_at of a submission
\* change only by a request of the teacher of the class owning the assignment
\* or by the AI grading service, never by a request of the submitting student
\* or another non-teacher.
C5_GradeOnlyByTeacherOrAi ==
    [][\A x \in DOMAIN assignment_submissions \cap DOMAIN assignment_submissions' :
          GradeColumns(assignment_submissions'[x]) # GradeColumns(assignment_submissions[x])
              => \/ call'.op = "ai-grading"
                 \/ classes[assignments[assignment_submissions[x].assignment_id].class_id]
                        .teacher_id = call'.caller]_vars

\* UNIQUE(assignment_id, student_id) holds of a table.
OneRowPerPair(table) ==
    \A x, y \in DOMAIN table :
        (table[x].assignment_id = table[y].assignment_id
         /\ table[x].student_id = table[y].student_id) => x = y

\* C7: there is at most one submission row per (assignment_id, student_id);
\* handleSubmit for a pair that already has a row fails with the error
\* toast, leaves the table as it was and does not invoke ai-grading.
C7_SecondSubmitRejected ==
    [][/\ OneRowPerPair(assignment_submissions')
       /\ (call'.op = "handleSubmit"
           /\ \E x \in DOMAIN assignment_submissions :
                 /\ assignment_submissions[x].assignment_id = call'.target
                 /\ assignment_submissions[x].student_id = call'.caller)
          => /\ assignment_submissions' = assignment_submissions
             /\ toast' = "Error submitting assignment"
             /\ response' = NoResponse]_vars

\* A second handleSubmit for a pair with a stored row has been rejected.
C7_Witness ==
    /\ call.op = "handleSubmit"
    /\ toast = "Error submitting assignment"
    /\ \E x \in DOMAIN assignment_submissions :
          /\ assignment_submissions[x].assignment_id = call.target
          /\ assignment_submissions[x].student_id = call.caller
          /\ assignment_submissions[x].content = "essay"

----------------------------------------------------------------------------
(* Grade extraction on its own: one stored submission, the gateway holding  *)
(* an arbitrary completion text, ai-grading called for the submission.      *)

InitGrade ==
    /\ profiles = InitProfiles
    /\ classes = InitClasses
    /\ class_enrollments = EmptyTable
    /\ assignments = InitAssignments
    /\ assignment_submissions = [x \in {"x1"} |-> NewSubmission("a1", "s1", "essay")]
    /\ attendance = EmptyTable
    /\ toast = NULL
    /\ response = NoResponse
    /\ call = NoCall
    /\ tabs = [t \in Tabs |-> IdleTab]
    /\ lastInsert = 0
    /\ aiText \in Texts
    /\ InitMore

NextGrade == InvokeAiGrading("s1", "x1", TRUE, 200, aiText)

SpecGrade == InitGrade /\ [][NextGrade]_vars

\* The maximal runs <<i, j>> of characters of the set `class` in a text.
Runs(text, class) ==
    {r \in (1..Len(text)) \X (1..Len(text)) :
        /\ r[1] <= r[2]
        /\ \A k \in r[1]..r[2] : text[k] \in class
        /\ (r[1] = 1 \/ text[r[1] - 1] \notin class)
        /\ (r[2] = Len(text) \/ text[r[2] + 1] \notin class)}

\* The grade for the first of the given runs: its decimal value capped at
\* 100, and 75 when there is none.
GradeOfFirst(text, runs) ==
    IF runs = {} THEN 75
    ELSE LET first == CHOOSE r \in runs : \A q \in runs : r[1] <= q[1]
             value == parseInt(SubSeq(text, first[1], first[2]))
         IN IF value > 100 THEN 100 ELSE value

\* The words (runs of letters, digits and underscores) that are numbers of
\* one to three digits.
WholeWordNumbers(text) ==
    {r \in Runs(text, WordChars) :
        /\ r[2] - r[1] + 1 <= 3
        /\ \A k \in r[1]..r[2] : text[k] \in Digits}

\* The runs of one to three digits, whatever stands next to them.
DigitRuns(text) == {r \in Runs(text, Digits) : r[2] - r[1] + 1 <= 3}

C4_AiGradingRespectsUpdatePolicy ==
    [][(call'.op = "ai-grading" /\ call'.target \in DOMAIN assignment_submissions
        /\ RowTouched(call'.target))
          => IsOwnerOrClassTeacher(call'.caller,
                                   assignment_submissions[call'.target])]_vars

\* C9: a successful ai-grading call for submission X sets X's grade to the
\* grade extracted from the AI response and X's ai_feedback to the whole
\* response, whatever X held before, and changes no other column of X and
\* no other row.
C9_AiGradingWritesGradeAndFeedbackOnly ==
    [][(call'.op = "ai-grading" /\ response'.status = 200)
          => /\ DOMAIN assignment_submissions' = DOMAIN assignment_submissions
             /\ \A x \in DOMAIN assignment_submissions :
                   IF x = call'.target
                   THEN /\ assignment_submissions'[x] =
                              [assignment_submissions[x] EXCEPT
                                  !.grade = response'.grade,
                                  !.ai_feedback = response'.feedback]
                        /\ \E text \in AiTexts :
                              /\ response'.feedback = Some(text)
                              /\ response'.grade = Some(suggestedGrade(text))
                   ELSE assignment_submissions'[x] = assignment_submissions[x]]_vars

\* An ai-grading call has replaced a grade the class teacher had saved.
C9_Witness ==
    /\ call.op = "ai-grading"
    /\ response.status = 200
    /\ call.target \in DOMAIN assignment_submissions
    /\ LET row == assignment_submissions[call.target]
       IN /\ row.graded_by = Some("t1")
          /\ row.teacher_feedback = Some(Feedback)
          /\ row.grade = Some(85)
          /\ row.ai_feedback = Some(<<"8", "5">>)

\* What ai-grading answers, by the configuration and the gateway's status.
ExpectedFailure(keyConfigured, status) ==
    IF ~keyConfigured THEN [status |-> 500, error |-> "LOVABLE_API_KEY is not configured"]
    ELSE IF status = 429 THEN [status |-> 429, error |-> RateLimitMessage]
    ELSE IF status = 402 THEN [status |-> 402, error |-> CreditsMessage]
    ELSE [status |-> 500, error |-> "AI gateway error"]

\* C10: when the gateway answers with a non-OK status, ai-grading returns
\* 429 with the rate-limit message for 429, 402 with the credits message for
\* 402 and 500 otherwise; in these cases, and when LOVABLE_API_KEY is not
\* configured, no submission row is modified.
C10_GatewayFailureMapped ==
    [][(call'.op = "ai-grading" /\ (~call'.configured \/ call'.status # 200))
          => /\ response'.status = ExpectedFailure(call'.configured, call'.status).status
             /\ response'.error = ExpectedFailure(call'.configured, call'.status).error
             /\ assignment_submissions' = assignment_submissions]_vars

\* ai-grading has answered 429 for a stored submission.
C10_Witness ==
    /\ call.op = "ai-grading"
    /\ call.configured
    /\ call.status = 429
    /\ call.target \in DOMAIN assignment_submissions
    /\ response.status = 429
    /\ response.error = RateLimitMessage

----------------------------------------------------------------------------
(* Lifecycle: the foreign keys of the schema and the deletes that follow    *)
(* them                                                                     *)

AnnouncementIds == {"n1"}
TimetableIds == {"k1"}
ServiceRole == "service_role"

\* The tables as one record, for the statements that touch several of them.
Database ==
    [profiles |-> profiles, classes |-> classes,
     class_enrollments |-> class_enrollments, assignments |-> assignments,
     assignment_submissions |-> assignment_submissions,
     attendance |-> attendance, announcements |-> announcements,
     resources |-> resources, timetable |-> timetable,
     notifications |-> notifications]

\* A table without the rows under the ids `gone`.
RowsExcept(table, gone) == [x \in DOMAIN table \ gone |-> table[x]]

\* The ids of the rows of a table whose column col holds one of the values.
IdsWhere(table, col, values) == {x \in DOMAIN table : table[x][col] \in values}

RowCount(db) ==
    Cardinality(DOMAIN db.classes) + Cardinality(DOMAIN db.class_enrollments)
    + Cardinality(DOMAIN db.assignments) + Cardinality(DOMAIN db.assignment_submissions)
    + Cardinality(DOMAIN db.attendance) + Cardinality(DOMAIN db.announcements)
    + Cardinality(DOMAIN db.resources) + Cardinality(DOMAIN db.timetable)

\* Variant: timetable.class_id without ON DELETE CASCADE acting.
DeleteClassesKeepingTimetable(db, cs) ==
    LET gone == IdsWhere(db.assignments, "class_id", cs)
    IN [db EXCEPT
          !.classes = RowsExcept(@, cs),
          !.class_enrollments = RowsExcept(@, IdsWhere(@, "class_id", cs)),
          !.assignments = RowsExcept(@, gone),
          !.assignment_submissions = RowsExcept(@, IdsWhere(@, "assignment_id", gone)),
          !.attendance = RowsExcept(@, IdsWhere(@, "class_id", cs)),
          !.announcements = RowsExcept(@, IdsWhere(@, "class_id", cs)),
          !.resources = RowsExcept(@, IdsWhere(@, "class_id", cs))]

\* Removing the classes cs: every class_id column REFERENCES classes(id) ON
\* DELETE CASCADE, and assignment_submissions.assignment_id REFERENCES
\* assignments(id) ON DELETE CASCADE.
DeleteClasses(db, cs) ==
    LET gone == IdsWhere(db.assignments, "class_id", cs)
    IN [db EXCEPT
          !.classes = RowsExcept(@, cs),
          !.class_enrollments = RowsExcept(@, IdsWhere(@, "class_id", cs)),
          !.assignments = RowsExcept(@, gone),
          !.assignment_submissions = RowsExcept(@, IdsWhere(@, "assignment_id", gone)),
          !.attendance = RowsExcept(@, IdsWhere(@, "class_id", cs)),
          !.announcements = RowsExcept(@, IdsWhere(@, "class_id", cs)),
          !.resources = RowsExcept(@, IdsWhere(@, "class_id", cs)),
          !.timetable = RowsExcept(@, IdsWhere(@, "class_id", cs))]

\* Removing the profiles ps: classes.teacher_id, class_enrollments.student_id,
\* attendance.student_id, assignment_submissions.student_id and
\* notifications.user_id are ON DELETE CASCADE; attendance.marked_by,
\* announcements.created_by, resources.uploaded_by and
\* assignment_submissions.graded_by are plain REFERENCES (NO ACTION): a row
\* that still refers to a removed profile once the cascades are done aborts
\* the statement.
DeleteProfiles(db, ps) ==
    LET own == IdsWhere(db.classes, "teacher_id", ps)
        d1 == DeleteClasses(db, own)
        d2 == [d1 EXCEPT
                 !.profiles = RowsExcept(@, ps),
                 !.class_enrollments = RowsExcept(@, IdsWhere(@, "student_id", ps)),
                 !.attendance = RowsExcept(@, IdsWhere(@, "student_id", ps)),
                 !.assignment_submissions = RowsExcept(@, IdsWhere(@, "student_id", ps)),
                 !.notifications = {n \in @ : n.user_id \notin ps}]
        held == \/ \E x \in DOMAIN d2.attendance : d2.attendance[x].marked_by \in ps
                \/ \E x \in DOMAIN d2.announcements : d2.announcements[x].created_by \in ps
                \/ \E x \in DOMAIN d2.resources : d2.resources[x].uploaded_by \in ps
                \/ \E x \in DOMAIN d2.assignment_submissions :
                      d2.assignment_submissions[x].graded_by \cap ps # {}
    IN IF held THEN [db |-> db, error |-> "23503"] ELSE [db |-> d2, error |-> NULL]

\* "Teachers can delete own classes" FOR DELETE USING
TeachersCanDeleteOwnClasses(uid, row) == row.teacher_id = uid

\* "Teachers can create announcements" FOR INSERT WITH CHECK
TeachersCanCreateAnnouncements(uid, row) ==
    \E c \in DOMAIN classes : c = row.class_id /\ classes[c].teacher_id = uid

\* "Teachers can manage timetable" FOR ALL USING
TeachersCanManageTimetable(uid, row) ==
    \E c \in DOMAIN classes : c = row.class_id /\ classes[c].teacher_id = uid

\* The tables after a statement left them as the record db.
Stored(db) ==
    /\ profiles' = db.profiles
    /\ classes' = db.classes
    /\ class_enrollments' = db.class_enrollments
    /\ assignments' = db.assignments
    /\ assignment_submissions' = db.assignment_submissions
    /\ attendance' = db.attendance
    /\ announcements' = db.announcements
    /\ resources' = db.resources
    /\ timetable' = db.timetable
    /\ notifications' = db.notifications

\* A delete as `call` records it: status holds the number of rows the
\* statement removed, cascades included.
DeleteCall(op, caller, target, removed) ==
    [op |-> op, caller |-> caller, target |-> target,
     configured |-> FALSE, status |-> removed]

\* INSERT INTO announcements as role `authenticated`, under id n.
RlsInsertAnnouncement(table, uid, n, row) ==
    IF ~TeachersCanCreateAnnouncements(uid, row)
    THEN [table |-> table, error |-> "42501"]
    ELSE IF row.class_id \notin DOMAIN classes \/ row.created_by \notin DOMAIN profiles
    THEN [table |-> table, error |-> "23503"]
    ELSE [table |-> [y \in DOMAIN table \cup {n} |-> IF y = n THEN row ELSE table[y]],
          error |-> NULL]

\* INSERT INTO timetable as role `authenticated`, under id k.
RlsInsertTimetable(table, uid, k, row) ==
    IF ~TeachersCanManageTimetable(uid, row)
    THEN [table |-> table, error |-> "42501"]
    ELSE IF row.class_id \notin DOMAIN classes
    THEN [table |-> table, error |-> "23503"]
    ELSE IF ~(row.day_of_week >= 0 /\ row.day_of_week <= 6)
    THEN [table |-> table, error |-> "23514"]
    ELSE [table |-> [y \in DOMAIN table \cup {k} |-> IF y = k THEN row ELSE table[y]],
          error |-> NULL]

\* supabase.from("announcements").insert({class_id, created_by, ...}) by uid
ClientInsertAnnouncement(uid, classId, createdBy) ==
    /\ AnnouncementIds \ DOMAIN announcements # {}
    /\ LET ins == RlsInsertAnnouncement(announcements, uid,
                      FreshId(AnnouncementIds, announcements),
                      [class_id |-> classId, created_by |-> createdBy])
       IN /\ announcements' = ins.table
          /\ dbError' = (ins.error # NULL)
    /\ call' = Call("insert", uid, NULL)
    /\ toast' = NULL
    /\ response' = NoResponse
    /\ UNCHANGED <<profiles, classes, class_enrollments, assignments,
                   assignment_submissions, attendance, tabs, lastInsert, aiText,
                   auth_users, resources, timetable, objects, notifications,
                   fn, dash>>

\* supabase.from("resources").insert({class_id, file_url, uploaded_by, ...}) by uid
ClientInsertResource(uid, classId, uploadedBy) ==
    /\ ResourceIds \ DOMAIN resources # {}
    /\ LET ins == RlsInsertResource(resources, uid, FreshId(ResourceIds, resources),
                      [class_id |-> classId,
                       file_url |-> getPublicUrl("class-resources", <<uid, "f1">>),
                       uploaded_by |-> uploadedBy])
       IN /\ resources' = ins.table
          /\ dbError' = (ins.error # NULL)
    /\ call' = Call("insert", uid, NULL)
    /\ toast' = NULL
    /\ response' = NoResponse
    /\ UNCHANGED <<profiles, classes, class_enrollments, assignments,
                   assignment_submissions, attendance, tabs, lastInsert, aiText,
                   auth_users, announcements, timetable, objects, notifications,
                   fn, dash>>

\* supabase.from("timetable").insert({class_id, day_of_week, ...}) by uid
ClientInsertTimetable(uid, classId, day) ==
    /\ TimetableIds \ DOMAIN timetable # {}
    /\ LET ins == RlsInsertTimetable(timetable, uid, FreshId(TimetableIds, timetable),
                      [class_id |-> classId, day_of_week |-> day])
       IN /\ timetable' = ins.table
          /\ dbError' = (ins.error # NULL)
    /\ call' = Call("insert", uid, NULL)
    /\ toast' = NULL
    /\ response' = NoResponse
    /\ UNCHANGED <<profiles, classes, class_enrollments, assignments,
                   assignment_submissions, attendance, tabs, lastInsert, aiText,
                   auth_users, announcements, resources, objects, notifications,
                   fn, dash>>

\* supabase.from("attendance").insert(rows) by uid: one statement.
ClientInsertAttendance(uid, rows) ==
    /\ Cardinality(AttendanceIds \ DOMAIN attendance) >= Cardinality(rows)
    /\ LET ins == RlsInsertAttendance(attendance, uid, rows)
       IN /\ attendance' = ins.table
          /\ dbError' = (ins.error # NULL)
    /\ call' = Call("insertAttendance", uid, rows)
    /\ toast' = NULL
    /\ response' = NoResponse
    /\ UNCHANGED <<profiles, classes, class_enrollments, assignments,
                   assignment_submissions, tabs, lastInsert, aiText,
                   auth_users, announcements, resources, timetable, objects,
                   notifications, fn, dash>>

\* supabase.from("classes").delete().eq("id", c) by uid: the row is removed
\* when the DELETE policy shows it to uid, and its dependents with it.
ClientDeleteClass(uid, c) ==
    /\ LET db == IF c \in DOMAIN classes /\ TeachersCanDeleteOwnClasses(uid, classes[c])
                 THEN DeleteClasses(Database, {c})
                 ELSE Database
       IN /\ Stored(db)
          /\ call' = DeleteCall("deleteClass", uid, c,
                                RowCount(Database) - RowCount(db))
    /\ dbError' = FALSE
    /\ toast' = NULL
    /\ response' = NoResponse
    /\ UNCHANGED <<tabs, lastInsert, aiText, auth_users, objects, fn, dash>>

\* DELETE FROM auth.users WHERE id = id with the service role: profiles.id
\* REFERENCES auth.users(id) ON DELETE CASCADE, so the profile goes with the
\* identity, or the whole statement fails.
DeleteUser(id) ==
    /\ id \in auth_users
    /\ LET del == DeleteProfiles(Database, {id})
       IN /\ Stored(del.db)
          /\ auth_users' = IF del.error = NULL THEN auth_users \ {id} ELSE auth_users
          /\ dbError' = (del.error # NULL)
          /\ call' = DeleteCall("deleteUser", ServiceRole, id,
                                RowCount(Database) - RowCount(del.db))
    /\ toast' = NULL
    /\ response' = NoResponse
    /\ UNCHANGED <<tabs, lastInsert, aiText, objects, fn, dash>>

\* One row for the attendance insert of the lifecycle specification.
OneAttendanceRow(classId, student, markedBy) ==
    {[class_id |-> classId, student_id |-> student, status |-> "present",
      date |-> Today, marked_by |-> markedBy]}

\* Rows arrive in every child table through the client API; classes are
\* deleted through it, identities by the service role.
NextLifecycle ==
    \/ ClientInsertEnrollment("s1", "c1", "s1")
    \/ ClientInsertSubmission("s1", "a1", "s1", "essay")
    \/ \E uid \in {"t1", "s1"} : ClientUpdateSubmission(uid, "x1", GradePatch(uid, 90))
    \/ \E by \in Teachers : ClientInsertAttendance("t1", OneAttendanceRow("c1", "s1", by))
    \/ \E by \in Teachers : ClientInsertAnnouncement("t1", "c1", by)
    \/ ClientInsertResource("t1", "c1", "t2")
    \/ \E day \in {1, 7} : ClientInsertTimetable("t1", "c1", day)
    \/ \E uid \in {"t1", "s1"}, c \in ClassIds : ClientDeleteClass(uid, c)
    \/ \E id \in {"t1", "t2", "s1"} : DeleteUser(id)

SpecLifecycle == Init /\ [][NextLifecycle]_vars

\* Some row of a child table of db refers to class c, directly or, for a
\* submission, through its assignment.
ReferencesClass(db, c) ==
    \/ \E x \in DOMAIN db.class_enrollments : db.class_enrollments[x].class_id = c
    \/ \E x \in DOMAIN db.assignments : db.assignments[x].class_id = c
    \/ \E x \in DOMAIN db.assignment_submissions :
          \/ db.assignment_submissions[x].assignment_id \notin DOMAIN db.assignments
          \/ db.assignments[db.assignment_submissions[x].assignment_id].class_id = c
    \/ \E x \in DOMAIN db.attendance : db.attendance[x].class_id = c
    \/ \E x \in DOMAIN db.announcements : db.announcements[x].class_id = c
    \/ \E x \in DOMAIN db.resources : db.resources[x].class_id = c
    \/ \E x \in DOMAIN db.timetable : db.timetable[x].class_id = c

\* Some row of db refers to profile u.
ReferencesProfile(db, u) ==
    \/ \E x \in DOMAIN db.classes : db.classes[x].teacher_id = u
    \/ \E x \in DOMAIN db.class_enrollments : db.class_enrollments[x].student_id = u
    \/ \E x \in DOMAIN db.assignment_submissions :
          \/ db.assignment_submissions[x].student_id = u
          \/ db.assignment_submissions[x].graded_by = Some(u)
    \/ \E x \in DOMAIN db.attendance :
          db.attendance[x].student_id = u \/ db.attendance[x].marked_by = u
    \/ \E x \in DOMAIN db.announcements : db.announcements[x].created_by = u
    \/ \E x \in DOMAIN db.resources : db.resources[x].uploaded_by = u
    \/ \E n \in db.notifications : n.user_id = u

\* C13: once a class row is gone, no enrollment, assignment, submission
\* (through its assignment), attendance, announcement, resource or timetable
\* row refers to its id; and a delete request on classes removes a row only
\* when its caller is that row's teacher_id.
C13_ClassDeleteCascades ==
    [][/\ \A c \in ClassIds \ DOMAIN classes' : ~ReferencesClass(Database', c)
       /\ call'.op = "deleteClass" =>
             \A c \in DOMAIN classes \ DOMAIN classes' :
                 c = call'.target /\ classes[c].teacher_id = call'.caller]_vars

\* The teacher has deleted class c1 and with it one row of each of the seven
\* dependent tables.
C13_Witness ==
    /\ call.op = "deleteClass"
    /\ call.caller = "t1"
    /\ call.target = "c1"
    /\ call.status = 8
    /\ "c1" \notin DOMAIN classes

\* C14: deleting a profile always succeeds: the profile is gone afterwards
\* together with every row that referred to it, also through marked_by,
\* created_by, uploaded_by and graded_by.
C14_ProfileDeleteAlwaysCascades ==
    [][call'.op = "deleteUser" =>
          /\ call'.target \notin DOMAIN profiles'
          /\ ~ReferencesProfile(Database', call'.target)]_vars

----------------------------------------------------------------------------
(* Identities and profiles: signup with the handle_new_user trigger, the    *)
(* profile policies, and the removal of an identity                         *)

\* CREATE TYPE user_role AS ENUM
UserRoles == {"admin", "teacher", "student"}

\* Ids of identities that sign up later on.
NewUsers == {"u1", "u2"}

\* raw_user_meta_data as signUp's options.data fills it: a role (possibly a
\* word that is no user_role) or none, a full_name or none.
SignupMetadata ==
    [role : {Null} \cup {Some(r) : r \in UserRoles \cup {"principal"}},
     full_name : {Null, Some("Ann")}]

COALESCE(value, default) == IF value # Null THEN CHOOSE v \in value : TRUE ELSE default

\* Variant: the trigger ignores the metadata's role.
handle_new_userAsStudent(id, email, meta) ==
    IF email = Null
    THEN [rows |-> {}, error |-> "23502"]
    ELSE [rows |-> {[id |-> id, role |-> "student",
                     full_name |-> COALESCE(meta.full_name, "User")]},
          error |-> NULL]

\* Variant: the trigger swallows a role it cannot cast and inserts nothing.
handle_new_userSkippingBadRole(id, email, meta) ==
    IF email = Null
    THEN [rows |-> {}, error |-> "23502"]
    ELSE IF meta.role # Null /\ meta.role \cap UserRoles = {}
    THEN [rows |-> {}, error |-> NULL]
    ELSE [rows |-> {[id |-> id, role |-> COALESCE(meta.role, "student"),
                     full_name |-> COALESCE(meta.full_name, "User")]},
          error |-> NULL]

\* handle_new_user() for the inserted identity NEW = (id, email, meta): the
\* profile row it inserts, or the error it raises (email is NOT NULL; the
\* cast ::user_role rejects a word outside the enum).
handle_new_user(id, email, meta) ==
    IF meta.role # Null /\ meta.role \cap UserRoles = {}
    THEN [rows |-> {}, error |-> "22P02"]
    ELSE IF email = Null
    THEN [rows |-> {}, error |-> "23502"]
    ELSE [rows |-> {[id |-> id, role |-> COALESCE(meta.role, "student"),
                     full_name |-> COALESCE(meta.full_name, "User")]},
          error |-> NULL]

\* supabase.auth.signUp: INSERT INTO auth.users and, in the same transaction,
\* the AFTER INSERT trigger on_auth_user_created; an error of the trigger
\* undoes the insert of the identity.
SignUp(id, email, meta) ==
    /\ id \notin auth_users
    /\ LET trg == handle_new_user(id, email, meta)
       IN /\ auth_users' = IF trg.error = NULL THEN auth_users \cup {id} ELSE auth_users
          /\ profiles' = IF trg.error # NULL THEN profiles
                         ELSE [u \in DOMAIN profiles \cup {r.id : r \in trg.rows} |->
                                  IF u \in DOMAIN profiles THEN profiles[u]
                                  ELSE LET row == CHOOSE r \in trg.rows : r.id = u
                                       IN [role |-> row.role, full_name |-> row.full_name]]
          /\ dbError' = (trg.error # NULL)
    /\ call' = Call("signUp", id, meta)
    /\ toast' = NULL
    /\ response' = NoResponse
    /\ UNCHANGED <<classes, class_enrollments, assignments, assignment_submissions,
                   attendance, tabs, lastInsert, aiText, announcements, resources,
                   timetable, objects, notifications, fn, dash>>

\* "Users can update own profile" FOR UPDATE USING
UsersCanUpdateOwnProfile(uid, id) == uid = id

\* supabase.from("profiles").update({role}).eq("id", id) by uid
ClientUpdateProfile(uid, id, role) ==
    /\ IF id \in DOMAIN profiles /\ UsersCanUpdateOwnProfile(uid, id)
       THEN IF role \in UserRoles
            THEN profiles' = [profiles EXCEPT ![id].role = role] /\ dbError' = FALSE
            ELSE profiles' = profiles /\ dbError' = TRUE
       ELSE profiles' = profiles /\ dbError' = FALSE
    /\ call' = Call("update", uid, NULL)
    /\ toast' = NULL
    /\ response' = NoResponse
    /\ UNCHANGED <<classes, class_enrollments, assignments, assignment_submissions,
                   attendance, tabs, lastInsert, aiText, auth_users, announcements,
                   resources, timetable, objects, notifications, fn, dash>>

\* supabase.from("profiles").insert(...) and .delete() by uid: profiles has
\* SELECT and UPDATE policies only, so the insert is refused and the delete
\* sees no row.
ClientInsertOrDeleteProfile(uid, id, insert) ==
    /\ dbError' = insert
    /\ call' = Call(IF insert THEN "insert" ELSE "delete", uid, NULL)
    /\ toast' = NULL
    /\ response' = NoResponse
    /\ UNCHANGED <<profiles, classes, class_enrollments, assignments,
                   assignment_submissions, attendance, tabs, lastInsert, aiText,
                   auth_users, announcements, resources, timetable, objects,
                   notifications, fn, dash>>

NextSignup ==
    \/ \E id \in NewUsers, email \in {Null, Some("mail")}, meta \in SignupMetadata :
          SignUp(id, email, meta)
    \/ \E uid \in NewUsers \cup {"s1"}, id \in NewUsers \cup {"s1"},
          role \in UserRoles \cup {"principal"} : ClientUpdateProfile(uid, id, role)
    \/ \E uid \in NewUsers, id \in NewUsers \cup {"s1"}, insert \in BOOLEAN :
          ClientInsertOrDeleteProfile(uid, id, insert)
    \/ \E id \in NewUsers \cup {"s1"} : DeleteUser(id)

SpecSignup == Init /\ [][NextSignup]_vars

\* C15: the identities and the profiles carry the same ids, one profile per
\* identity, both coming into being in the same step; every profile's role
\* is admin, teacher or student.
C15_OneProfilePerIdentity ==
    [][/\ DOMAIN profiles' = auth_users'
       /\ auth_users' \ auth_users = DOMAIN profiles' \ DOMAIN profiles
       /\ \A u \in DOMAIN profiles' : profiles'[u].role \in UserRoles]_vars

\* A new identity has signed up and has its profile, after a signup with a
\* role outside the enum was refused.
C15_Witness ==
    /\ call.op = "signUp"
    /\ call.caller = "u2"
    /\ call.target.role = Some("principal")
    /\ dbError
    /\ "u2" \notin auth_users
    /\ "u1" \in auth_users
    /\ "u1" \in DOMAIN profiles

\* C16: a signup that creates a profile gives it the role of the signup
\* metadata when the metadata holds one (admin, teacher or student, as the
\* registering user chose) and student when it holds none; full_name is
\* the metadata's, and 'User' when the metadata holds none.
C16_SignupRoleFromMetadata ==
    [][(call'.op = "signUp" /\ call'.caller \in DOMAIN profiles')
          => LET meta == call'.target
                 row == profiles'[call'.caller]
             IN /\ \A r \in UserRoles : meta.role = Some(r) => row.role = r
                /\ meta.role = Null => row.role = "student"
                /\ meta.full_name = Null => row.full_name = "User"
                /\ \A n \in meta.full_name : row.full_name = n]_vars

\* A user has registered as admin, without a name.
C16_Witness ==
    /\ call.op = "signUp"
    /\ call.target = [role |-> Some("admin"), full_name |-> Null]
    /\ call.caller \in DOMAIN profiles
    /\ profiles[call.caller] = [role |-> "admin", full_name |-> "User"]

----------------------------------------------------------------------------
(* The attendance table under the client API                                *)

\* Rows a caller may put in an insert: for class c1, with a status inside or
\* outside the CHECK list.
AttendanceCandidates ==
    {[class_id |-> "c1", student_id |-> st, status |-> status,
      date |-> Today, marked_by |-> "t1"] :
         st \in Students, status \in {"present", "absent", "excused"}}

\* The statements of one or two rows.
AttendanceBatches ==
    {rows \in SUBSET AttendanceCandidates : Cardinality(rows) \in {1, 2}}

\* supabase.from("attendance").update(...) and .delete() by uid: attendance
\* has SELECT and INSERT policies only, so neither statement sees a row.
ClientUpdateOrDeleteAttendance(uid, x, update) ==
    /\ attendance' = RlsDeleteAttendance(attendance, uid, "c1", Today).table
    /\ dbError' = FALSE
    /\ call' = Call(IF update THEN "update" ELSE "delete", uid, NULL)
    /\ toast' = NULL
    /\ response' = NoResponse
    /\ UNCHANGED <<profiles, classes, class_enrollments, assignments,
                   assignment_submissions, tabs, lastInsert, aiText,
                   auth_users, announcements, resources, timetable, objects,
                   notifications, fn, dash>>

NextAttendanceApi ==
    \/ \E uid \in {"t1", "s1"}, rows \in AttendanceBatches :
          ClientInsertAttendance(uid, rows)
    \/ \E uid \in {"t1", "s1"}, x \in AttendanceIds, update \in BOOLEAN :
          ClientUpdateOrDeleteAttendance(uid, x, update)
    \/ \E marks \in AttendanceMaps : submitAttendance("t1", "c1", marks)

SpecAttendanceApi == Init /\ [][NextAttendanceApi]_vars

\* Two rows with the same (class_id, student_id, date).
SameAttendanceKey(r, q) ==
    r.class_id = q.class_id /\ r.student_id = q.student_id /\ r.date = q.date

\* A statement's rows break the CHECK on status or the UNIQUE key, among
\* themselves or against the table.
BreaksAttendanceRules(table, rows) ==
    \/ \E r \in rows : r.status \notin Statuses
    \/ \E r \in rows : \E x \in DOMAIN table : SameAttendanceKey(r, table[x])
    \/ \E r, q \in rows : r # q /\ SameAttendanceKey(r, q)

\* C17: attendance holds at most one row per (class_id, student_id, date),
\* every row's status is present, absent or late, and an insert statement
\* with a row that breaks either rule stores none of its rows.
C17_AttendanceUniqueAndChecked ==
    [][/\ \A x, y \in DOMAIN attendance' :
             SameAttendanceKey(attendance'[x], attendance'[y]) => x = y
       /\ \A x \in DOMAIN attendance' : attendance'[x].status \in Statuses
       /\ (call'.op = "insertAttendance"
           /\ BreaksAttendanceRules(attendance, call'.target))
             => attendance' = attendance]_vars

\* The class teacher's two-row insert, one row acceptable and one with a
\* status outside the list, has been refused with rows already stored.
C17_Witness ==
    /\ call.op = "insertAttendance"
    /\ call.caller = "t1"
    /\ dbError
    /\ \E r, q \in call.target :
          /\ r.student_id = "s2" /\ r.status = "present"
          /\ q.student_id = "s1" /\ q.status = "excused"
    /\ \E x \in DOMAIN attendance : attendance[x].student_id = "s1"
    /\ \A x \in DOMAIN attendance : attendance[x].student_id # "s2"

----------------------------------------------------------------------------
(* handleJoinClass: the lookup and the inserted row                         *)

\* The enrollment rows a step adds.
NewEnrollments ==
    {class_enrollments'[e] : e \in DOMAIN class_enrollments' \ DOMAIN class_enrollments}

----------------------------------------------------------------------------
(* The writing handlers when a database call may fail: each statement named *)
(* in `faults` returns an error whatever the schema says; dbError records   *)
(* whether any database call of the handler returned an error.              *)

Failed(table) == [table |-> table, error |-> "fault"]

\* AttendanceTracker.submitAttendance by uid.
submitAttendanceUnder(uid, classId, marks, faults) ==
    /\ Cardinality(AttendanceIds \ DOMAIN attendance) >= Cardinality(DOMAIN marks)
    /\ LET del == IF "delete" \in faults THEN Failed(attendance)
                  ELSE RlsDeleteAttendance(attendance, uid, classId, Today)
           ins == IF "insert" \in faults THEN Failed(del.table)
                  ELSE RlsInsertAttendance(del.table, uid,
                                           attendanceRecords(uid, classId, marks))
       IN /\ attendance' = ins.table
          /\ toast' = IF ins.error # NULL THEN "Error saving attendance"
                                          ELSE "Attendance saved!"
          /\ dbError' = (del.error # NULL \/ ins.error # NULL)
    /\ call' = Call("submitAttendance", uid, classId)
    /\ response' = NoResponse
    /\ UNCHANGED <<profiles, classes, class_enrollments, assignments,
                   assignment_submissions, tabs, lastInsert, aiText, auth_users,
                   announcements, resources, timetable, objects, notifications,
                   fn, dash>>

\* StudentDashboard.handleJoinClass by uid.
handleJoinClassUnder(uid, code, faults) ==
    /\ EnrollmentIds \ DOMAIN class_enrollments # {}
    /\ LET found == ClassesByCode(toUpperCase(code))
           classError == "select" \in faults \/ Cardinality(found) # 1
           ins == IF "insert" \in faults THEN Failed(class_enrollments)
                  ELSE RlsInsertEnrollment(class_enrollments, uid,
                           FreshId(EnrollmentIds, class_enrollments),
                           [class_id |-> CHOOSE c \in found : TRUE,
                            student_id |-> uid])
       IN IF classError
          THEN /\ toast' = "Class not found"
               /\ dbError' = TRUE
               /\ UNCHANGED class_enrollments
          ELSE /\ class_enrollments' = ins.table
               /\ dbError' = (ins.error # NULL)
               /\ toast' = IF ins.error = NULL THEN "Successfully joined!"
                            ELSE IF ins.error = "23505" THEN "Already enrolled"
                            ELSE "Error joining class"
    /\ call' = Call("handleJoinClass", uid, code)
    /\ response' = NoResponse
    /\ UNCHANGED <<profiles, classes, assignments, assignment_submissions,
                   attendance, tabs, lastInsert, aiText, auth_users,
                   announcements, resources, timetable, objects, notifications,
                   fn, dash>>

\* StudentAssignments.handleSubmit by uid, the ai-grading function answering
\* with the completion `text`.
handleSubmitUnder(uid, a, content, text, faults) ==
    /\ SubmissionIds \ DOMAIN assignment_submissions # {}
    /\ a \in DOMAIN assignments
    /\ LET x == FreshId(SubmissionIds, assignment_submissions)
           ins == IF "insert" \in faults
                  THEN [table |-> assignment_submissions, error |-> "fault", rows |-> 0]
                  ELSE RlsInsertSubmission(assignment_submissions, uid, x,
                                           NewSubmission(a, uid, content))
       IN IF ins.error # NULL
          THEN /\ assignment_submissions' = ins.table
               /\ toast' = "Error submitting assignment"
               /\ response' = NoResponse
               /\ dbError' = TRUE
          ELSE LET r == AiGradingRun(ins.table, x, TRUE, 200, text)
               IN /\ assignment_submissions' = r.table
                  /\ toast' = "Assignment submitted!"
                  /\ response' = r.response
                  /\ dbError' = FALSE
    /\ call' = Call("handleSubmit", uid, a)
    /\ UNCHANGED <<profiles, classes, class_enrollments, assignments, attendance,
                   tabs, lastInsert, aiText, auth_users, announcements,
                   resources, timetable, objects, notifications, fn, dash>>

\* "Students can view own submissions" FOR SELECT USING
StudentsCanViewOwnSubmissions(uid, row) ==
    row.student_id = uid \/ TeachesSubmission(uid, row)

\* parseInt on what an <input type="number"> holds: an optional minus sign
\* and the decimal digits that follow it, whatever comes after them; NaN
\* (no value) when no digit follows.
parseIntPrefix(s) ==
    LET neg == s # <<>> /\ s[1] = "-"
        body == IF neg THEN Tail(s) ELSE s
        n == Max({k \in 0..Len(body) : \A j \in 1..k : body[j] \in Digits})
        value == parseInt(SubSeq(body, 1, n))
    IN IF n = 0 THEN Null ELSE Some(IF neg THEN 0 - value ELSE value)

\* Variant: the check against the documented range 0-100.
InvalidGradeOver100(grade, totalPoints) ==
    \/ grade = Null
    \/ \E g \in grade : g < 0 \/ g > 100

\* isNaN(grade) || grade < 0 || grade > totalPoints
InvalidGrade(grade, totalPoints) ==
    \/ grade = Null
    \/ \E g \in grade : g < 0 \/ g > totalPoints

\* AssignmentSubmissions.handleGradeSubmission by uid on the listed
\* submission x with `typed` in the grade field of the dialog; totalPoints
\* is the total_points of the assignment whose submissions are listed.
handleGradeSubmission(uid, x, typed, faults) ==
    /\ x \in DOMAIN assignment_submissions
    /\ StudentsCanViewOwnSubmissions(uid, assignment_submissions[x])
    /\ Cardinality(notifications) < MaxNotifications
    /\ call' = Call("handleGradeSubmission", uid, x)
    /\ LET row == assignment_submissions[x]
           totalPoints == assignments[row.assignment_id].total_points
           grade == parseIntPrefix(typed)
           upd == IF "update" \in faults
                  THEN [table |-> assignment_submissions, error |-> "fault", rows |-> 0]
                  ELSE RlsUpdateSubmission(assignment_submissions, uid, x,
                                           GradePatch(uid, CHOOSE g \in grade : TRUE))
           note == IF "notify" \in faults THEN Failed(notifications)
                   ELSE InsertNotifications(notifications,
                            {[user_id |-> row.student_id, type |-> "grade",
                              related_id |-> row.assignment_id]})
       IN IF InvalidGrade(grade, totalPoints)
          THEN /\ toast' = "Invalid grade"
               /\ dbError' = FALSE
               /\ UNCHANGED <<assignment_submissions, notifications>>
          ELSE IF upd.error # NULL
          THEN /\ toast' = "Error grading submission"
               /\ dbError' = TRUE
               /\ UNCHANGED <<assignment_submissions, notifications>>
          ELSE /\ toast' = "Submission graded"
               /\ dbError' = (note.error # NULL)
               /\ assignment_submissions' = upd.table
               /\ notifications' = note.table
    /\ response' = NoResponse
    /\ UNCHANGED <<profiles, classes, class_enrollments, assignments, attendance,
                   tabs, lastInsert, aiText, auth_users, announcements,
                   resources, timetable, objects, fn, dash>>

NextFaults ==
    \/ \E marks \in AttendanceMaps, faults \in FaultSets({"delete", "insert"}) :
          submitAttendanceUnder("t1", "c1", marks, faults)
    \/ \E code \in {<<"A", "B", "1">>, <<"A", "A", "1">>},
          faults \in FaultSets({"select", "insert"}) :
          handleJoinClassUnder("s1", code, faults)
    \/ \E faults \in FaultSets({"insert"}) :
          handleSubmitUnder("s1", "a1", "essay", <<"8", "5">>, faults)
    \/ \E x \in SubmissionIds, g \in {<<"9", "0">>, <<"1", "4", "0">>}, faults \in FaultSets({"update", "notify"}) :
          handleGradeSubmission("t1", x, g, faults)
    \/ \E faults \in FaultSets({"upload", "insert", "select", "notify"}) :
          handleUpload("t1", "c1", TRUE, "f1", faults)

SpecFaults == Init /\ [][NextFaults]_vars

WritingHandlers ==
    {"submitAttendance", "handleGradeSubmission", "handleUpload",
     "handleJoinClass", "handleSubmit"}

ErrorToasts ==
    {"Error saving attendance", "Error grading submission", "Upload failed",
     "Class not found", "Already enrolled", "Error joining class",
     "Error submitting assignment"}

\* C19: when a database call issued by submitAttendance,
\* handleGradeSubmission, handleUpload, handleJoinClass or handleSubmit has
\* returned an error, the handler shows an error toast and not its success
\* toast.
C19_DatabaseErrorGivesErrorToast ==
    [][(call'.op \in WritingHandlers /\ dbError') => toast' \in ErrorToasts]_vars

----------------------------------------------------------------------------
(* The dashboard pages: what a page does when it is mounted.  dash.queries  *)
(* holds the data queries the page has issued, dash.location where it has   *)
(* navigated to.                                                            *)

Pages == {"admin", "teacher", "student"}

\* The role a page is meant for, and the route of the page.
RoleOfPage(page) == page
RouteOf(page) == page

\* The data queries of a page's effect.
DataQueries(page) ==
    CASE page = "admin" -> {"fetchStats", "fetchUsers", "fetchClasses"}
      [] page = "teacher" -> {"fetchClasses"}
      [] page = "student" -> {"fetchEnrolledClasses"}

\* The effect runs: AdminDashboard calls checkAdminAccess, fetchStats,
\* fetchUsers and fetchClasses one after the other without awaiting any, so
\* each has sent its first request when the effect returns; TeacherDashboard
\* and StudentDashboard call checkAuth only.
DashMount(page, user) ==
    /\ dash.pc = "unmounted"
    /\ dash' = [page |-> page, user |-> user, pc |-> "getUser",
                queries |-> IF page = "admin" THEN DataQueries(page) ELSE {},
                location |-> RouteOf(page)]
    /\ toast' = NULL
    /\ UNCHANGED <<profiles, classes, class_enrollments, assignments,
                   assignment_submissions, attendance, response, call, tabs,
                   lastInsert, aiText, auth_users, announcements, resources,
                   timetable, objects, notifications, fn, dbError>>

\* supabase.auth.getUser() has answered: without a user the page navigates
\* to /auth.
DashGetUser ==
    /\ dash.pc = "getUser"
    /\ dash' = IF dash.user = Anon \/ dash.user \notin auth_users
               THEN [dash EXCEPT !.pc = "done", !.location = "/auth"]
               ELSE [dash EXCEPT !.pc = "profile"]
    /\ UNCHANGED <<profiles, classes, class_enrollments, assignments,
                   assignment_submissions, attendance, toast, response, call,
                   tabs, lastInsert, aiText, auth_users, announcements,
                   resources, timetable, objects, notifications, fn, dbError>>

\* The profile's role has been read: another role navigates to /, on the
\* admin page with the "Access Denied" toast; the page's own role lets
\* TeacherDashboard and StudentDashboard issue their query.
DashProfile ==
    /\ dash.pc = "profile"
    /\ LET role == IF dash.user \in DOMAIN profiles
                   THEN Some(profiles[dash.user].role) ELSE Null
       IN IF role # Some(RoleOfPage(dash.page))
          THEN /\ dash' = [dash EXCEPT !.pc = "done", !.location = "/"]
               /\ toast' = IF dash.page = "admin" THEN "Access Denied" ELSE toast
          ELSE /\ dash' = [dash EXCEPT !.pc = "done",
                                       !.queries = @ \cup DataQueries(dash.page)]
               /\ toast' = toast
    /\ UNCHANGED <<profiles, classes, class_enrollments, assignments,
                   assignment_submissions, attendance, response, call, tabs,
                   lastInsert, aiText, auth_users, announcements, resources,
                   timetable, objects, notifications, fn, dbError>>

\* The user leaves the page.
DashUnmount ==
    /\ dash.pc = "done"
    /\ dash' = NoDash
    /\ UNCHANGED <<profiles, classes, class_enrollments, assignments,
                   assignment_submissions, attendance, toast, response, call,
                   tabs, lastInsert, aiText, auth_users, announcements,
                   resources, timetable, objects, notifications, fn, dbError>>

\* People register, and visit the pages, signed in or not.
NextDash ==
    \/ \E id \in NewUsers, role \in {"admin", "student"} :
          SignUp(id, Some("mail"), [role |-> Some(role), full_name |-> Null])
    \/ \E page \in Pages, user \in {"t1", "s1", "u1", "u2", Anon} : DashMount(page, user)
    \/ DashGetUser
    \/ DashProfile
    \/ DashUnmount

SpecDash == Init /\ [][NextDash]_vars

\* C20: a dashboard page has issued data queries only once its user is
\* known to be signed in with the profile role of the page; a visitor
\* without a session ends at /auth and a user of another role at /, no data
\* query of the page having been issued.
C20_QueriesOnlyAfterRoleCheck ==
    /\ dash.queries # {} =>
          /\ dash.pc = "done"
          /\ dash.user \in DOMAIN profiles
          /\ profiles[dash.user].role = RoleOfPage(dash.page)
    /\ dash.location \in {"/auth", "/"} => dash.queries = {}

----------------------------------------------------------------------------
(* Grading: a teacher creates an assignment with the total points of their  *)
(* choice, a student submits and ai-grading suggests a grade, the teacher   *)
(* saves a grade from the dialog.                                           *)

\* The values typed into the "Total Points" field.
TotalPoints == {50, 200}

\* What the grade field of the dialog can hold.
GradeInputs ==
    {<<>>, <<"4", "0">>, <<"-", "5">>, <<"8", ".", "5">>, <<"1", "5", "0">>}

\* "Teachers can manage assignments" FOR ALL USING
TeachersCanManageAssignments(uid, row) ==
    \E c \in DOMAIN classes : c = row.class_id /\ classes[c].teacher_id = uid

\* INSERT INTO assignments as role `authenticated`, under id a.
RlsInsertAssignment(table, uid, a, row) ==
    IF ~TeachersCanManageAssignments(uid, row)
    THEN [table |-> table, error |-> "42501"]
    ELSE [table |-> [y \in DOMAIN table \cup {a} |->
                        IF y = a THEN row ELSE table[y]],
          error |-> NULL]

\* AssignmentManager.handleCreateAssignment by uid for class classId.
handleCreateAssignment(uid, classId, total_points) ==
    /\ AssignmentIds \ DOMAIN assignments # {}
    /\ LET ins == RlsInsertAssignment(assignments, uid,
                       FreshId(AssignmentIds, assignments),
                       [class_id |-> classId, title |-> "New",
                        total_points |-> total_points])
       IN /\ assignments' = ins.table
          /\ dbError' = (ins.error # NULL)
          /\ toast' = IF ins.error # NULL THEN "Error creating assignment"
                                          ELSE "Assignment created!"
    /\ call' = Call("handleCreateAssignment", uid, classId)
    /\ response' = NoResponse
    /\ UNCHANGED <<profiles, classes, class_enrollments, assignment_submissions,
                   attendance, tabs, lastInsert, aiText, auth_users,
                   announcements, resources, timetable, objects, notifications,
                   fn, dash>>

\* One assignment created so far, with the default total points.
InitGrading ==
    /\ profiles = InitProfiles
    /\ classes = InitClasses
    /\ class_enrollments = EmptyTable
    /\ assignments = [a \in {"a1"} |-> InitAssignments[a]]
    /\ assignment_submissions = EmptyTable
    /\ attendance = EmptyTable
    /\ toast = NULL
    /\ response = NoResponse
    /\ call = NoCall
    /\ tabs = [t \in Tabs |-> IdleTab]
    /\ lastInsert = 0
    /\ aiText = <<>>
    /\ InitMore

NextGrading ==
    \/ \E uid \in {"t1", "s1"}, points \in TotalPoints :
          handleCreateAssignment(uid, "c1", points)
    \/ \E a \in AssignmentIds, status \in {200, 503}, text \in AiTexts :
          handleSubmit("s1", a, "essay", TRUE, status, text, FALSE)
    \/ \E x \in SubmissionIds, typed \in GradeInputs,
          faults \in FaultSets({"update"}) :
          handleGradeSubmission("t1", x, typed, faults)

SpecGrading == InitGrading /\ [][NextGrading]_vars

\* C21: every grade stored in assignment_submissions, written by ai-grading
\* or by a teacher through handleGradeSubmission, is an integer between 0
\* and 100 inclusive.
C21_StoredGradeBetween0And100 ==
    \A x \in DOMAIN assignment_submissions :
        \A g \in assignment_submissions[x].grade : g \in 0..100

\* C25: every stored submission grade is at most the total_points of its
\* assignment, whoever wrote it and whatever total_points the teacher chose.
C25_StoredGradeAtMostTotalPoints ==
    \A x \in DOMAIN assignment_submissions :
        \A g \in assignment_submissions[x].grade :
            g <= assignments[assignment_submissions[x].assignment_id].total_points

\* The notification rows a step has added.
NewNotifications == notifications' \ notifications

----------------------------------------------------------------------------
(* Roles and the ownership of classes: what the policies on profiles and   *)
(* classes let a signed-in user write.                                      *)

\* generateClassCode(): some upper-case code.
ClassCodes == {<<"A", "B", "1">>, <<"B", "A", "1">>, <<"A", "A", "1">>}

\* "Teachers can create classes" FOR INSERT WITH CHECK
TeachersCanCreateClasses(uid, row) ==
    \E p \in DOMAIN profiles : p = uid /\ profiles[p].role = "teacher"

\* "Teachers can update own classes" FOR UPDATE USING
TeachersCanUpdateOwnClasses(uid, row) == row.teacher_id = uid

\* INSERT INTO classes as role `authenticated`, under id c: teacher_id
\* REFERENCES profiles(id), class_code is UNIQUE.
RlsInsertClass(table, uid, c, row) ==
    IF ~TeachersCanCreateClasses(uid, row)
    THEN [table |-> table, error |-> "42501"]
    ELSE IF row.teacher_id \notin DOMAIN profiles
    THEN [table |-> table, error |-> "23503"]
    ELSE IF \E d \in DOMAIN table : table[d].class_code = row.class_code
    THEN [table |-> table, error |-> "23505"]
    ELSE [table |-> [y \in DOMAIN table \cup {c} |->
                        IF y = c THEN row ELSE table[y]],
          error |-> NULL]

\* UPDATE classes SET teacher_id = owner WHERE id = c as role
\* `authenticated`: the policy has no WITH CHECK, so its USING expression
\* is also checked on the new row.
RlsUpdateClass(table, uid, c, owner) ==
    IF c \notin DOMAIN table \/ ~TeachersCanUpdateOwnClasses(uid, table[c])
    THEN [table |-> table, error |-> NULL]
    ELSE LET new == [table[c] EXCEPT !.teacher_id = owner] IN
         IF ~TeachersCanUpdateOwnClasses(uid, new)
         THEN [table |-> table, error |-> "42501"]
         ELSE IF owner \notin DOMAIN profiles
         THEN [table |-> table, error |-> "23503"]
         ELSE [table |-> [table EXCEPT ![c] = new], error |-> NULL]

\* supabase.from("classes").insert({teacher_id, class_code}) by uid
ClientInsertClass(uid, teacher_id, class_code) ==
    /\ ClassIds \ DOMAIN classes # {}
    /\ LET ins == RlsInsertClass(classes, uid, FreshId(ClassIds, classes),
                       [teacher_id |-> teacher_id, class_code |-> class_code])
       IN /\ classes' = ins.table
          /\ dbError' = (ins.error # NULL)
    /\ call' = Call("insertClass", uid, teacher_id)
    /\ toast' = NULL
    /\ response' = NoResponse
    /\ UNCHANGED <<profiles, class_enrollments, assignments,
                   assignment_submissions, attendance, tabs, lastInsert, aiText,
                   auth_users, announcements, resources, timetable, objects,
                   notifications, fn, dash>>

\* supabase.from("classes").update({teacher_id: owner}).eq("id", c) by uid
ClientUpdateClass(uid, c, owner) ==
    /\ LET upd == RlsUpdateClass(classes, uid, c, owner)
       IN /\ classes' = upd.table
          /\ dbError' = (upd.error # NULL)
    /\ call' = Call("updateClass", uid, c)
    /\ toast' = NULL
    /\ response' = NoResponse
    /\ UNCHANGED <<profiles, class_enrollments, assignments,
                   assignment_submissions, attendance, tabs, lastInsert, aiText,
                   auth_users, announcements, resources, timetable, objects,
                   notifications, fn, dash>>

\* TeacherDashboard.handleCreateClass by uid, generateClassCode() yielding
\* class_code.
handleCreateClass(uid, class_code) ==
    /\ ClassIds \ DOMAIN classes # {}
    /\ IF uid = Anon
       THEN /\ toast' = NULL
            /\ dbError' = FALSE
            /\ UNCHANGED classes
       ELSE LET ins == RlsInsertClass(classes, uid, FreshId(ClassIds, classes),
                           [teacher_id |-> uid, class_code |-> class_code])
            IN /\ classes' = ins.table
               /\ dbError' = (ins.error # NULL)
               /\ toast' = IF ins.error # NULL THEN "Error creating class"
                                               ELSE "Class created!"
    /\ call' = Call("handleCreateClass", uid, class_code)
    /\ response' = NoResponse
    /\ UNCHANGED <<profiles, class_enrollments, assignments,
                   assignment_submissions, attendance, tabs, lastInsert, aiText,
                   auth_users, announcements, resources, timetable, objects,
                   notifications, fn, dash>>

\* Users who are not admins update profiles and create and delete classes.
NextRoles ==
    \/ \E uid \in {"s1", "t1"}, id \in {"s1", "t1"}, role \in UserRoles :
          ClientUpdateProfile(uid, id, role)
    \/ \E uid \in {"s1", "t1", Anon}, code \in ClassCodes :
          handleCreateClass(uid, code)
    \/ \E uid \in Teachers, c \in ClassIds : ClientDeleteClass(uid, c)

SpecRoles == Init /\ [][NextRoles]_vars

\* C22: no operation of a non-admin user changes the role of a profile, so
\* a student never becomes a teacher or an admin.
C22_RoleNeverChanges ==
    [][\A u \in DOMAIN profiles \cap DOMAIN profiles' :
          profiles'[u].role = profiles[u].role]_vars

\* Classes are created, handed over and deleted; no profile changes.
NextClasses ==
    \/ \E uid \in {"s1", "t1", Anon}, code \in ClassCodes :
          handleCreateClass(uid, code)
    \/ \E uid \in {"s1", "t1"}, owner \in {"s1", "t1", "t2"}, code \in ClassCodes :
          ClientInsertClass(uid, owner, code)
    \/ \E uid \in {"t1", "s1"}, c \in ClassIds, owner \in {"s1", "t1", "t2"} :
          ClientUpdateClass(uid, c, owner)
    \/ \E uid \in Teachers \cup {"s1"}, c \in ClassIds : ClientDeleteClass(uid, c)

SpecClasses == Init /\ [][NextClasses]_vars

\* C23: a class row that a step stores or changes has as teacher_id the
\* caller of the step, and its owner's profile has the role teacher.
C23_ClassOwnedByInsertingTeacher ==
    [][\A c \in DOMAIN classes' :
          (c \notin DOMAIN classes \/ classes'[c] # classes[c]) =>
             /\ classes'[c].teacher_id = call'.caller
             /\ profiles'[classes'[c].teacher_id].role = "teacher"]_vars

----------------------------------------------------------------------------
(* The life of an attendance row: inserted by the class teacher, then met   *)
(* by updates and deletes through the client API, by submitAttendance, and  *)
(* by the deletion of its class or of a profile it refers to.               *)

NextAttendanceLife ==
    \/ \E st \in Students, by \in Teachers :
          ClientInsertAttendance("t1", OneAttendanceRow("c1", st, by))
    \/ \E uid \in {"t1", "s1"}, x \in AttendanceIds, update \in BOOLEAN :
          ClientUpdateOrDeleteAttendance(uid, x, update)
    \/ \E marks \in AttendanceMaps : submitAttendance("t1", "c1", marks)
    \/ \E uid \in {"t1", "s1"} : ClientDeleteClass(uid, "c1")
    \/ \E id \in {"s1", "t2"} : DeleteUser(id)

SpecAttendanceLife == Init /\ [][NextAttendanceLife]_vars

----------------------------------------------------------------------------
(* ResourceManager on its own: teachers share and delete resources of      *)
(* their own classes, and any statement of a call may fail.                *)

\* The names `${Date.now()}.${fileExt}` yields.
UploadNames == {"f1", "f2"}

NextResources ==
    \/ \E c \in ClassIds, hasTitle \in BOOLEAN, file \in UploadNames,
          faults \in FaultSets({"upload", "insert"}) :
          handleUpload(classes[c].teacher_id, c, hasTitle, file, faults)
    \/ \E uid \in Teachers, q \in ResourceIds,
          faults \in FaultSets({"delete", "remove"}) :
          handleDelete(uid, q, faults)

SpecResources == Init /\ [][NextResources]_vars

\* The resources rows whose file_url is the public URL of the object.
RowsOfFile(o) ==
    {q \in DOMAIN resources :
        resources[q].file_url = getPublicUrl("class-resources", o.name)}

\* C26: every object of the class-resources bucket is the file of exactly
\* one resources row, and the file of every resources row is in the bucket.
C26_NoOrphanedFileNoRowWithoutFile ==
    /\ \A o \in ResourceFiles(objects) : Cardinality(RowsOfFile(o)) = 1
    /\ \A q \in DOMAIN resources :
          \E o \in ResourceFiles(objects) : q \in RowsOfFile(o)

----------------------------------------------------------------------------
(* StudentAssignments.handleSubmit on its own: students submit, and the     *)
(* ai-grading invocation answers with any status or rejects.                *)

NextSubmit ==
    \E uid \in Students, a \in AssignmentIds, c \in Contents, k \in BOOLEAN,
       st \in GatewayStatuses, text \in AiTexts, thrown \in BOOLEAN :
        handleSubmit(uid, a, c, k, st, text, thrown)

SpecSubmit == Init /\ [][NextSubmit]_vars

\* The submissions a step has inserted.
InsertedSubmissions ==
    DOMAIN assignment_submissions' \ DOMAIN assignment_submissions

\* C28: handleSubmit invokes ai-grading only when its insert has stored the
\* row; then, whatever the invocation answers, the row is stored for the
\* caller and the assignment, the toast says the work was submitted, and
\* fetchAssignments was called exactly once.
C28_SubmitThenGradeThenRefetchOnce ==
    [][call'.op = "handleSubmit" =>
          /\ call'.configured <=> InsertedSubmissions # {}
          /\ InsertedSubmissions # {} =>
                /\ \A x \in InsertedSubmissions :
                      /\ assignment_submissions'[x].assignment_id = call'.target
                      /\ assignment_submissions'[x].student_id = call'.caller
                /\ \A x \in DOMAIN assignment_submissions :
                      x \in DOMAIN assignment_submissions'
                /\ toast' \in {"Assignment submitted!", "Submitted successfully"}
                /\ call'.status = 1]_vars

\* A submission whose ai-grading call was answered with an error is stored
\* ungraded and the student has been told it was submitted.
C28_Witness ==
    /\ call.op = "handleSubmit"
    /\ call.configured
    /\ response.status = 429
    /\ toast = "Assignment submitted!"
    /\ \E x \in DOMAIN assignment_submissions :
          /\ assignment_submissions[x].assignment_id = call.target
          /\ assignment_submissions[x].student_id = call.caller
          /\ assignment_submissions[x].grade = Null

====
